---------------------------- MODULE Spec2Model ----------------------------
(***************************************************************************)
(* Model of the ui-ux-pro-mcp search core: the BM25 engine                 *)
(* (search/bm25.ts), the keyword classifiers, the query validator /        *)
(* expander and the search handlers (tools/handlers.ts).                   *)
(*                                                                         *)
(* Text is modelled by TLA+ strings used as character sequences (Len,      *)
(* SubSeq, Head, Tail and \o act on them).  Real numbers are fixed-point   *)
(* integers: BM25 scores in units of 1/Scale, classifier weights and       *)
(* confidences in thousandths.                                             *)
(***************************************************************************)
EXTENDS Integers, Sequences, FiniteSets, TLC

VARIABLES
  bm25,   \* a BM25 instance exercised on its own (class BM25)
  call,   \* the operation in progress / last performed, with its arguments
  ret,    \* the value that operation returned
  \* the module-level variables of tools/handlers.ts; a Map is kept as the
  \* sequence of its [key, value] entries in insertion order
  stylesIndex, colorsIndex, typographyIndex, chartsIndex, uxGuidelinesIndex,
  iconsIndex, landingIndex, productsIndex, promptsIndex,
  stackIndexes, platformIndexes, allDocuments, unifiedIndex,
  stylesData, colorsData, typographyData, chartsData, uxGuidelinesData,
  iconsData, landingData, productsData, promptsData, stacksData, platformsData,
  \* the HTTP server of index.ts
  sessions,    \* the session table: session id -> SessionInfo
  connecting   \* initialize requests whose transport has no session id yet

handlerVars ==
  <<stylesIndex, colorsIndex, typographyIndex, chartsIndex, uxGuidelinesIndex,
    iconsIndex, landingIndex, productsIndex, promptsIndex,
    stackIndexes, platformIndexes, allDocuments, unifiedIndex,
    stylesData, colorsData, typographyData, chartsData, uxGuidelinesData,
    iconsData, landingData, productsData, promptsData, stacksData, platformsData>>

httpVars == <<sessions, connecting>>

vars == <<bm25, call, ret, handlerVars, httpVars>>

----------------------------------------------------------------------------
(* Characters and JavaScript string primitives                             *)

LowerLetters == {"a","b","c","d","e","f","g","h","i","j","k","l","m",
                 "n","o","p","q","r","s","t","u","v","w","x","y","z"}
UpperLetters == {"A","B","C","D","E","F","G","H","I","J","K","L","M",
                 "N","O","P","Q","R","S","T","U","V","W","X","Y","Z"}
Digits == {"0","1","2","3","4","5","6","7","8","9"}

\* \w of a JavaScript regular expression without the u flag: [A-Za-z0-9_]
WordChars == LowerLetters \cup UpperLetters \cup Digits \cup {"_"}

\* \s of a JavaScript regular expression, restricted to ASCII
SpaceChars == {" ", "\t", "\n", "\r", "\f"}

IsWordChar(c) == c \in WordChars
IsSpace(c) == c \in SpaceChars

CharAt(s, i) == SubSeq(s, i, i)

LowerMap ==
  [c \in UpperLetters |->
     CASE c = "A" -> "a" [] c = "B" -> "b" [] c = "C" -> "c" [] c = "D" -> "d"
       [] c = "E" -> "e" [] c = "F" -> "f" [] c = "G" -> "g" [] c = "H" -> "h"
       [] c = "I" -> "i" [] c = "J" -> "j" [] c = "K" -> "k" [] c = "L" -> "l"
       [] c = "M" -> "m" [] c = "N" -> "n" [] c = "O" -> "o" [] c = "P" -> "p"
       [] c = "Q" -> "q" [] c = "R" -> "r" [] c = "S" -> "s" [] c = "T" -> "t"
       [] c = "U" -> "u" [] c = "V" -> "v" [] c = "W" -> "w" [] c = "X" -> "x"
       [] c = "Y" -> "y" [] c = "Z" -> "z"]

LowerChar(c) == IF c \in UpperLetters THEN LowerMap[c] ELSE c

\* String.prototype.toLowerCase (ASCII); halving keeps the recursion shallow
RECURSIVE toLowerCase(_)
toLowerCase(s) ==
  IF Len(s) = 0 THEN ""
  ELSE IF Len(s) = 1 THEN LowerChar(s)
  ELSE LET h == Len(s) \div 2
       IN  toLowerCase(SubSeq(s, 1, h)) \o toLowerCase(SubSeq(s, h + 1, Len(s)))

\* text.replace(/[^\w\s]/g, ' ')
RECURSIVE replaceNonWord(_)
replaceNonWord(s) ==
  IF Len(s) = 0 THEN ""
  ELSE IF Len(s) = 1 THEN (IF IsWordChar(s) \/ IsSpace(s) THEN s ELSE " ")
  ELSE LET h == Len(s) \div 2
       IN  replaceNonWord(SubSeq(s, 1, h)) \o replaceNonWord(SubSeq(s, h + 1, Len(s)))

\* The end of the run of non-space characters that starts at i
WordEnd(s, i) ==
  CHOOSE e \in i..Len(s) :
    /\ e = Len(s) \/ IsSpace(CharAt(s, e + 1))
    /\ \A j \in (i + 1)..e : ~IsSpace(CharAt(s, j))

\* The end of the run of whitespace that starts at i
SpaceEnd(s, i) ==
  CHOOSE e \in i..Len(s) :
    /\ e = Len(s) \/ ~IsSpace(CharAt(s, e + 1))
    /\ \A j \in (i + 1)..e : IsSpace(CharAt(s, j))

\* text.split(/\s+/): the pieces between maximal whitespace runs; a leading
\* or trailing run yields an empty first or last piece, "" yields [""]
splitWhitespace(s) ==
  LET starts == {i \in 1..Len(s) :
                   ~IsSpace(CharAt(s, i)) /\ (i = 1 \/ IsSpace(CharAt(s, i - 1)))}
      nth(n) == CHOOSE i \in starts : Cardinality({j \in starts : j <= i}) = n
      words == [n \in 1..Cardinality(starts) |-> SubSeq(s, nth(n), WordEnd(s, nth(n)))]
      leading == IF Len(s) = 0 \/ IsSpace(CharAt(s, 1)) THEN <<"">> ELSE <<>>
      trailing == IF Len(s) > 0 /\ IsSpace(CharAt(s, Len(s))) THEN <<"">> ELSE <<>>
  IN  leading \o words \o trailing

\* Array.prototype.join; halving keeps the recursion shallow
RECURSIVE join(_, _)
join(parts, sep) ==
  IF Len(parts) = 0 THEN ""
  ELSE IF Len(parts) = 1 THEN parts[1]
  ELSE LET h == Len(parts) \div 2
       IN  join(SubSeq(parts, 1, h), sep) \o sep
             \o join(SubSeq(parts, h + 1, Len(parts)), sep)

\* String.prototype.trim (ASCII whitespace)
trimStart(s) ==
  IF \A i \in 1..Len(s) : IsSpace(CharAt(s, i)) THEN ""
  ELSE SubSeq(s, CHOOSE i \in 1..Len(s) :
                   /\ ~IsSpace(CharAt(s, i))
                   /\ \A j \in 1..(i - 1) : IsSpace(CharAt(s, j)),
              Len(s))

trimEnd(s) ==
  IF \A i \in 1..Len(s) : IsSpace(CharAt(s, i)) THEN ""
  ELSE SubSeq(s, 1, CHOOSE i \in 1..Len(s) :
                      /\ ~IsSpace(CharAt(s, i))
                      /\ \A j \in (i + 1)..Len(s) : IsSpace(CharAt(s, j)))

trim(s) == trimEnd(trimStart(s))

\* String.prototype.indexOf, 0-based, -1 when absent
indexOf(s, k) ==
  LET At(i) == SubSeq(s, i, i + Len(k) - 1) = k
      starts == 1..(Len(s) - Len(k) + 1)
  IN  IF \E i \in starts : At(i)
        THEN (CHOOSE i \in starts : At(i) /\ \A j \in 1..(i - 1) : ~At(j)) - 1
        ELSE -1

\* String.prototype.includes
includes(s, k) == \E i \in 1..(Len(s) - Len(k) + 1) : SubSeq(s, i, i + Len(k) - 1) = k

----------------------------------------------------------------------------
(* BM25 (search/bm25.ts)                                                   *)

\* tokenize with the punctuation replaced after the split instead of before
tokenizeSplitFirst(text) ==
  LET parts == splitWhitespace(toLowerCase(text))
  IN  SelectSeq([i \in 1..Len(parts) |-> replaceNonWord(parts[i])],
                LAMBDA token : Len(token) > 1)

\* tokenize that keeps tokens of every length
tokenizeNoFilter(text) ==
  splitWhitespace(replaceNonWord(toLowerCase(text)))

\* BM25.tokenize
tokenize(text) ==
  SelectSeq(splitWhitespace(replaceNonWord(toLowerCase(text))),
            LAMBDA token : Len(token) > 1)

\* Fixed-point unit of a BM25 score or idf value: 1/Scale
Scale == 100000
\* ln 2 in units of 1/Scale
Ln2 == 69315
\* Fixed-point unit of the term-frequency factor of a score
TfScale == 1000

\* 2 * atanh(z) in units of 1/Scale, for 0 <= z < 1/3 given as zs = z * Scale
atanh2(zs) ==
  LET z2 == (zs * zs) \div Scale
      t3 == (zs * z2) \div Scale
      t5 == (t3 * z2) \div Scale
      t7 == (t5 * z2) \div Scale
      t9 == (t7 * z2) \div Scale
      t11 == (t9 * z2) \div Scale
  IN  2 * (zs + (t3 \div 3) + (t5 \div 5) + (t7 \div 7) + (t9 \div 9) + (t11 \div 11))

\* ln(p / q2 * 2^k) for 1 <= p / q2, halving until p / q2 < 2
RECURSIVE lnReduce(_, _, _)
lnReduce(p, q2, k) ==
  IF p >= 2 * q2 THEN lnReduce(p, 2 * q2, k + 1)
  ELSE k * Ln2 + atanh2(((p - q2) * Scale) \div (p + q2))

\* Math.log(p / q) for integers p, q > 0, in units of 1/Scale
\* (within 1e-4 of the real value; ln x = k ln 2 + 2 atanh((m-1)/(m+1)))
MathLog(p, q) ==
  IF p >= q THEN lnReduce(p, q, 0) ELSE 0 - lnReduce(q, p, 0)

\* BM25 parameters k1 = 1.5 and b = 0.75 as fractions
k1 == [num |-> 3, den |-> 2]
b == [num |-> 3, den |-> 4]

Range(f) == {f[i] : i \in DOMAIN f}

Min(x, y) == IF x <= y THEN x ELSE y
Max(x, y) == IF x >= y THEN x ELSE y

\* document frequencies that count every occurrence of a token
calculateDocFrequenciesTotal(tokenizedDocs) ==
  LET terms == UNION {Range(tokenizedDocs[i]) : i \in DOMAIN tokenizedDocs}
  IN  [t \in terms |->
         Cardinality({<<i, j>> \in UNION {{i} \X DOMAIN tokenizedDocs[i] :
                                            i \in DOMAIN tokenizedDocs} :
                        tokenizedDocs[i][j] = t})]

\* BM25.calculateDocFrequencies: for every token, the number of documents
\* whose token set contains it
calculateDocFrequencies(tokenizedDocs) ==
  LET terms == UNION {Range(tokenizedDocs[i]) : i \in DOMAIN tokenizedDocs}
  IN  [t \in terms |->
         Cardinality({i \in DOMAIN tokenizedDocs : t \in Range(tokenizedDocs[i])})]

RECURSIVE sumLengths(_)
sumLengths(tokenizedDocs) ==
  IF Len(tokenizedDocs) = 0 THEN 0
  ELSE IF Len(tokenizedDocs) = 1 THEN Len(tokenizedDocs[1])
  ELSE LET h == Len(tokenizedDocs) \div 2
       IN  sumLengths(SubSeq(tokenizedDocs, 1, h))
             + sumLengths(SubSeq(tokenizedDocs, h + 1, Len(tokenizedDocs)))

\* BM25.calculateAvgDocLength, as the fraction num / den
\* calculateAvgDocLength without the floor: the plain mean, 0 for no tokens
calculateAvgDocLengthNoFloor(tokenizedDocs) ==
  IF Len(tokenizedDocs) = 0 THEN [num |-> 0, den |-> 1]
  ELSE [num |-> sumLengths(tokenizedDocs), den |-> Len(tokenizedDocs)]

calculateAvgDocLength(tokenizedDocs) ==
  IF Len(tokenizedDocs) = 0 THEN [num |-> 1, den |-> 1]
  ELSE LET totalLength == sumLengths(tokenizedDocs)
       IN  IF totalLength = 0 THEN [num |-> 1, den |-> 1]
           ELSE [num |-> totalLength, den |-> Len(tokenizedDocs)]

\* new BM25(documents)
BM25(documents) ==
  LET tokenizedDocs == [i \in 1..Len(documents) |-> tokenize(documents[i].content)]
  IN  [isNull |-> FALSE,
       documents |-> documents,
       tokenizedDocs |-> tokenizedDocs,
       docFrequencies |-> calculateDocFrequencies(tokenizedDocs),
       avgDocLength |-> calculateAvgDocLength(tokenizedDocs)]

null == [isNull |-> TRUE]

\* this.docFrequencies.get(term) || 0
docFrequency(index, term) ==
  IF term \in DOMAIN index.docFrequencies THEN index.docFrequencies[term] ELSE 0

\* idf without the "+ 1" inside the logarithm
idfNoPlusOne(index, term) ==
  LET N == Len(index.documents)
      df == docFrequency(index, term)
  IN  MathLog(2 * (N - df) + 1, 2 * df + 1)

\* idf with the fraction inverted
idfInverted(index, term) ==
  LET N == Len(index.documents)
      df == docFrequency(index, term)
  IN  MathLog((2 * df + 1) + (2 * (N - df) + 1), 2 * (N - df) + 1)

\* BM25.idf: Math.log((N - df + 0.5) / (df + 0.5) + 1), numerator and
\* denominator doubled to stay in the integers
idf(index, term) ==
  LET N == Len(index.documents)
      df == docFrequency(index, term)
  IN  MathLog((2 * (N - df) + 1) + (2 * df + 1), 2 * df + 1)

\* the number of occurrences of term in a token sequence
termFrequency(tokens, term) ==
  Cardinality({i \in DOMAIN tokens : tokens[i] = term})

\* The second divisor of BM25.score for one term,
\* tf + k1 * (1 - b + b * (docLength / avgDocLength)), multiplied by
\* k1.den * b.den * avgDocLength.num
scoreDenominator(index, tf, docLength) ==
  LET avg == index.avgDocLength
  IN  tf * k1.den * b.den * avg.num
        + k1.num * ((b.den - b.num) * avg.num + b.num * docLength * avg.den)

\* idfValue * (numerator / denominator) for one query term of frequency tf
termScore(index, term, tf, docLength) ==
  LET avg == index.avgDocLength
      numerator == tf * (k1.num + k1.den) * b.den * avg.num
      factor == (numerator * TfScale) \div scoreDenominator(index, tf, docLength)
  IN  (idf(index, term) * factor) \div TfScale

\* The part of BM25.score contributed by the query tokens from..to: the sum
\* over those that occur in the document
RECURSIVE scoreFrom(_, _, _, _, _)
scoreFrom(index, queryTokens, docIndex, from, to) ==
  IF from > to THEN 0
  ELSE IF from = to
    THEN LET docTokens == index.tokenizedDocs[docIndex]
             tf == termFrequency(docTokens, queryTokens[from])
         IN  IF tf = 0 THEN 0
             ELSE termScore(index, queryTokens[from], tf, Len(docTokens))
  ELSE LET h == (from + to) \div 2
       IN  scoreFrom(index, queryTokens, docIndex, from, h)
             + scoreFrom(index, queryTokens, docIndex, h + 1, to)

\* BM25.score
score(index, queryTokens, docIndex) ==
  scoreFrom(index, queryTokens, docIndex, 1, Len(queryTokens))

\* The divisors BM25.score divides by while scoring one document:
\* avgDocLength and the denominator, for every query token with tf > 0
scoreDivisors(index, queryTokens, docIndex) ==
  LET docTokens == index.tokenizedDocs[docIndex]
  IN  UNION {{index.avgDocLength.num,
              scoreDenominator(index, termFrequency(docTokens, queryTokens[j]),
                               Len(docTokens))} :
             j \in {i \in DOMAIN queryTokens :
                      termFrequency(docTokens, queryTokens[i]) > 0}}

\* Array.prototype.sort with a comparator b.key - a.key: stable, descending.
\* The indices of keys in that order: index i comes after every index with a
\* larger key and after every earlier index with the same key
stableOrderDesc(keys) ==
  LET before(i) == {j \in 1..Len(keys) :
                      keys[j] > keys[i] \/ (keys[j] = keys[i] /\ j < i)}
  IN  [k \in 1..Len(keys) |->
         CHOOSE i \in 1..Len(keys) : Cardinality(before(i)) = k - 1]

\* results.sort((a, b) => b.score - a.score)
sortByScoreDesc(results) ==
  LET order == stableOrderDesc([i \in 1..Len(results) |-> results[i].score])
  IN  [k \in 1..Len(results) |-> results[order[k]]]

\* Array.prototype.slice(0, n) for an integer n
slice0(results, n) ==
  LET end == IF n < 0 THEN (IF Len(results) + n < 0 THEN 0 ELSE Len(results) + n)
             ELSE IF n > Len(results) THEN Len(results) ELSE n
  IN  SubSeq(results, 1, end)

\* the scored array BM25.search builds before filtering
scoreAll(index, query) ==
  LET queryTokens == tokenize(query)
  IN  [i \in 1..Len(index.documents) |->
         [document |-> index.documents[i], score |-> score(index, queryTokens, i)]]

\* search that keeps zero-score documents
searchNoFilter(index, query, maxResults) ==
  slice0(sortByScoreDesc(scoreAll(index, query)), maxResults)

\* search that does not sort
searchNoSort(index, query, maxResults) ==
  slice0(SelectSeq(scoreAll(index, query), LAMBDA r : r.score > 0), maxResults)

\* BM25.search
search(index, query, maxResults) ==
  slice0(sortByScoreDesc(SelectSeq(scoreAll(index, query), LAMBDA r : r.score > 0)),
         maxResults)

----------------------------------------------------------------------------
(* Keyword classifiers (tools/handlers.ts).  Weights and confidences are   *)
(* in thousandths.                                                         *)

\* Keywords mapped to domains, in declaration order
domainKeywordsWeighted ==
  <<[category |-> "color", keywords |-> <<
        [keyword |-> "color palette", weight |-> 1000],
        [keyword |-> "color scheme", weight |-> 1000],
        [keyword |-> "hex code", weight |-> 950],
        [keyword |-> "palette", weight |-> 900],
        [keyword |-> "color", weight |-> 700],
        [keyword |-> "hex", weight |-> 600],
        [keyword |-> "rgb", weight |-> 500],
        [keyword |-> "#", weight |-> 300]>>],
    [category |-> "chart", keywords |-> <<
        [keyword |-> "chart type", weight |-> 1000],
        [keyword |-> "data visualization", weight |-> 1000],
        [keyword |-> "visualization", weight |-> 900],
        [keyword |-> "chart", weight |-> 850],
        [keyword |-> "graph", weight |-> 800],
        [keyword |-> "pie chart", weight |-> 950],
        [keyword |-> "bar chart", weight |-> 950],
        [keyword |-> "scatter plot", weight |-> 950],
        [keyword |-> "heatmap", weight |-> 900],
        [keyword |-> "funnel", weight |-> 700],
        [keyword |-> "trend", weight |-> 500],
        [keyword |-> "bar", weight |-> 400],
        [keyword |-> "pie", weight |-> 400],
        [keyword |-> "scatter", weight |-> 500]>>],
    [category |-> "landing", keywords |-> <<
        [keyword |-> "landing page", weight |-> 1000],
        [keyword |-> "landing pattern", weight |-> 1000],
        [keyword |-> "hero section", weight |-> 950],
        [keyword |-> "cta button", weight |-> 900],
        [keyword |-> "conversion", weight |-> 800],
        [keyword |-> "landing", weight |-> 750],
        [keyword |-> "hero", weight |-> 700],
        [keyword |-> "testimonial", weight |-> 700],
        [keyword |-> "pricing section", weight |-> 800],
        [keyword |-> "cta", weight |-> 600],
        [keyword |-> "section", weight |-> 300]>>],
    [category |-> "product", keywords |-> <<
        [keyword |-> "product type", weight |-> 1000],
        [keyword |-> "saas design", weight |-> 1000],
        [keyword |-> "ecommerce design", weight |-> 1000],
        [keyword |-> "fintech", weight |-> 900],
        [keyword |-> "healthcare", weight |-> 850],
        [keyword |-> "saas", weight |-> 800],
        [keyword |-> "ecommerce", weight |-> 800],
        [keyword |-> "e-commerce", weight |-> 800],
        [keyword |-> "gaming", weight |-> 700],
        [keyword |-> "portfolio", weight |-> 600],
        [keyword |-> "crypto", weight |-> 700],
        [keyword |-> "dashboard", weight |-> 600]>>],
    [category |-> "prompt", keywords |-> <<
        [keyword |-> "ai prompt", weight |-> 1000],
        [keyword |-> "prompt template", weight |-> 1000],
        [keyword |-> "css snippet", weight |-> 900],
        [keyword |-> "implementation checklist", weight |-> 900],
        [keyword |-> "design system variable", weight |-> 850],
        [keyword |-> "prompt", weight |-> 700],
        [keyword |-> "checklist", weight |-> 500],
        [keyword |-> "variable", weight |-> 300]>>],
    [category |-> "style", keywords |-> <<
        [keyword |-> "ui style", weight |-> 1000],
        [keyword |-> "design style", weight |-> 1000],
        [keyword |-> "glassmorphism", weight |-> 950],
        [keyword |-> "neumorphism", weight |-> 950],
        [keyword |-> "brutalism", weight |-> 950],
        [keyword |-> "minimalism", weight |-> 900],
        [keyword |-> "dark mode", weight |-> 850],
        [keyword |-> "flat design", weight |-> 900],
        [keyword |-> "aurora", weight |-> 700],
        [keyword |-> "style", weight |-> 500],
        [keyword |-> "design", weight |-> 300],
        [keyword |-> "ui", weight |-> 300]>>],
    [category |-> "ux", keywords |-> <<
        [keyword |-> "ux guideline", weight |-> 1000],
        [keyword |-> "ux best practice", weight |-> 1000],
        [keyword |-> "usability", weight |-> 900],
        [keyword |-> "accessibility", weight |-> 900],
        [keyword |-> "wcag", weight |-> 950],
        [keyword |-> "a11y", weight |-> 900],
        [keyword |-> "ux", weight |-> 750],
        [keyword |-> "user experience", weight |-> 850],
        [keyword |-> "touch target", weight |-> 800],
        [keyword |-> "scroll", weight |-> 400],
        [keyword |-> "animation", weight |-> 400],
        [keyword |-> "keyboard", weight |-> 500],
        [keyword |-> "navigation", weight |-> 400],
        [keyword |-> "mobile", weight |-> 300]>>],
    [category |-> "typography", keywords |-> <<
        [keyword |-> "font pairing", weight |-> 1000],
        [keyword |-> "typography", weight |-> 900],
        [keyword |-> "google fonts", weight |-> 850],
        [keyword |-> "font family", weight |-> 850],
        [keyword |-> "heading font", weight |-> 900],
        [keyword |-> "body font", weight |-> 900],
        [keyword |-> "font", weight |-> 600],
        [keyword |-> "serif", weight |-> 500],
        [keyword |-> "sans-serif", weight |-> 500],
        [keyword |-> "sans", weight |-> 400],
        [keyword |-> "heading", weight |-> 300]>>],
    [category |-> "icons", keywords |-> <<
        [keyword |-> "lucide icon", weight |-> 1000],
        [keyword |-> "icon search", weight |-> 1000],
        [keyword |-> "lucide", weight |-> 950],
        [keyword |-> "heroicons", weight |-> 900],
        [keyword |-> "svg icon", weight |-> 900],
        [keyword |-> "icons", weight |-> 800],
        [keyword |-> "icon", weight |-> 700],
        [keyword |-> "symbol", weight |-> 400],
        [keyword |-> "glyph", weight |-> 500],
        [keyword |-> "pictogram", weight |-> 600]>>],
    [category |-> "platform", keywords |-> <<
        [keyword |-> "ios guideline", weight |-> 1000],
        [keyword |-> "ios hig", weight |-> 1000],
        [keyword |-> "human interface", weight |-> 950],
        [keyword |-> "apple design", weight |-> 950],
        [keyword |-> "ios native", weight |-> 900],
        [keyword |-> "ios pattern", weight |-> 900],
        [keyword |-> "cupertino", weight |-> 850],
        [keyword |-> "uikit", weight |-> 850],
        [keyword |-> "ios color", weight |-> 800],
        [keyword |-> "ios typography", weight |-> 800],
        [keyword |-> "ios navigation", weight |-> 800],
        [keyword |-> "safe area", weight |-> 750],
        [keyword |-> "notch", weight |-> 700],
        [keyword |-> "home indicator", weight |-> 750],
        [keyword |-> "dynamic island", weight |-> 800],
        [keyword |-> "android guideline", weight |-> 1000],
        [keyword |-> "material design", weight |-> 1000],
        [keyword |-> "material 3", weight |-> 1000],
        [keyword |-> "m3", weight |-> 950],
        [keyword |-> "material you", weight |-> 950],
        [keyword |-> "google design", weight |-> 900],
        [keyword |-> "android native", weight |-> 900],
        [keyword |-> "android pattern", weight |-> 900],
        [keyword |-> "jetpack compose", weight |-> 950],
        [keyword |-> "compose", weight |-> 700],
        [keyword |-> "kotlin ui", weight |-> 850],
        [keyword |-> "android hig", weight |-> 900],
        [keyword |-> "android color", weight |-> 800],
        [keyword |-> "android typography", weight |-> 800],
        [keyword |-> "android navigation", weight |-> 800],
        [keyword |-> "dynamic color", weight |-> 850],
        [keyword |-> "tonal elevation", weight |-> 800],
        [keyword |-> "material", weight |-> 600],
        [keyword |-> "android", weight |-> 600]>>]>>

\* Stack/framework detection keywords with weights
stackKeywordsWeighted ==
  <<[category |-> "react", keywords |-> <<
        [keyword |-> "react hooks", weight |-> 1000],
        [keyword |-> "usestate", weight |-> 950],
        [keyword |-> "useeffect", weight |-> 950],
        [keyword |-> "usememo", weight |-> 950],
        [keyword |-> "usecallback", weight |-> 950],
        [keyword |-> "useref", weight |-> 950],
        [keyword |-> "usecontext", weight |-> 950],
        [keyword |-> "jsx", weight |-> 850],
        [keyword |-> "react component", weight |-> 900],
        [keyword |-> "react", weight |-> 700]>>],
    [category |-> "nextjs", keywords |-> <<
        [keyword |-> "next.js", weight |-> 1000],
        [keyword |-> "nextjs", weight |-> 1000],
        [keyword |-> "app router", weight |-> 950],
        [keyword |-> "server components", weight |-> 950],
        [keyword |-> "server actions", weight |-> 950],
        [keyword |-> "getserversideprops", weight |-> 950],
        [keyword |-> "getstaticprops", weight |-> 950],
        [keyword |-> "pages router", weight |-> 900],
        [keyword |-> "next/image", weight |-> 900],
        [keyword |-> "next/link", weight |-> 900]>>],
    [category |-> "vue", keywords |-> <<
        [keyword |-> "vue 3", weight |-> 1000],
        [keyword |-> "vuejs", weight |-> 1000],
        [keyword |-> "vue.js", weight |-> 1000],
        [keyword |-> "composition api", weight |-> 950],
        [keyword |-> "options api", weight |-> 900],
        [keyword |-> "pinia", weight |-> 950],
        [keyword |-> "vuex", weight |-> 900],
        [keyword |-> "ref(", weight |-> 850],
        [keyword |-> "reactive(", weight |-> 850],
        [keyword |-> "vue", weight |-> 600]>>],
    [category |-> "svelte", keywords |-> <<
        [keyword |-> "sveltekit", weight |-> 1000],
        [keyword |-> "svelte 5", weight |-> 1000],
        [keyword |-> "svelte store", weight |-> 950],
        [keyword |-> "$:", weight |-> 700],
        [keyword |-> "svelte", weight |-> 800]>>],
    [category |-> "flutter", keywords |-> <<
        [keyword |-> "flutter widget", weight |-> 1000],
        [keyword |-> "flutter", weight |-> 900],
        [keyword |-> "dart", weight |-> 700],
        [keyword |-> "statefulwidget", weight |-> 950],
        [keyword |-> "statelesswidget", weight |-> 950],
        [keyword |-> "buildcontext", weight |-> 900],
        [keyword |-> "widget", weight |-> 400]>>],
    [category |-> "swiftui", keywords |-> <<
        [keyword |-> "swiftui", weight |-> 1000],
        [keyword |-> "swift ui", weight |-> 1000],
        [keyword |-> "ios development", weight |-> 800],
        [keyword |-> "@state", weight |-> 900],
        [keyword |-> "@binding", weight |-> 900],
        [keyword |-> "@observedobject", weight |-> 900],
        [keyword |-> "ios", weight |-> 500]>>],
    [category |-> "react-native", keywords |-> <<
        [keyword |-> "react native", weight |-> 1000],
        [keyword |-> "react-native", weight |-> 1000],
        [keyword |-> "expo", weight |-> 850],
        [keyword |-> "expo router", weight |-> 950],
        [keyword |-> "native module", weight |-> 800]>>],
    [category |-> "html-tailwind", keywords |-> <<
        [keyword |-> "tailwind css", weight |-> 1000],
        [keyword |-> "tailwindcss", weight |-> 1000],
        [keyword |-> "tailwind", weight |-> 850],
        [keyword |-> "utility css", weight |-> 900],
        [keyword |-> "utility class", weight |-> 800],
        [keyword |-> "utility-first", weight |-> 900]>>],
    [category |-> "shadcn", keywords |-> <<
        [keyword |-> "shadcn/ui", weight |-> 1000],
        [keyword |-> "shadcn", weight |-> 950],
        [keyword |-> "radix ui", weight |-> 850],
        [keyword |-> "radix", weight |-> 700]>>],
    [category |-> "nuxtjs", keywords |-> <<
        [keyword |-> "nuxt 3", weight |-> 1000],
        [keyword |-> "nuxtjs", weight |-> 1000],
        [keyword |-> "nuxt.js", weight |-> 1000],
        [keyword |-> "nuxt", weight |-> 850],
        [keyword |-> "usefetch", weight |-> 900],
        [keyword |-> "useasyncdata", weight |-> 900]>>],
    [category |-> "nuxt-ui", keywords |-> <<
        [keyword |-> "nuxt ui", weight |-> 1000],
        [keyword |-> "@nuxt/ui", weight |-> 1000]>>]>>

\* A word boundary (\b) between positions i - 1 and i of s
wordBoundary(s, i) ==
  LET before == i > 1 /\ IsWordChar(CharAt(s, i - 1))
      after == i <= Len(s) /\ IsWordChar(CharAt(s, i))
  IN  before # after

\* new RegExp(`\\b${escapeRegex(keyword)}\\b`, 'i').test(query): the keyword,
\* taken literally and without regard to case, between two word boundaries
wordBoundaryTest(query, keyword) ==
  \E i \in 1..(Len(query) - Len(keyword) + 1) :
    /\ toLowerCase(SubSeq(query, i, i + Len(keyword) - 1)) = toLowerCase(keyword)
    /\ wordBoundary(query, i)
    /\ wordBoundary(query, i + Len(keyword))

\* matchesKeyword with a substring test for every keyword
matchesKeywordSubstring(query, keyword) ==
  includes(toLowerCase(query), toLowerCase(keyword))

\* matchesKeyword
matchesKeyword(query, keyword) ==
  IF includes(keyword, " ") THEN includes(query, keyword)
  ELSE wordBoundaryTest(query, keyword)

\* the keywords of a category that match the query, in table order
matchedEntries(lowerQuery, keywords) ==
  SelectSeq(keywords, LAMBDA e : matchesKeyword(lowerQuery, e.keyword))

RECURSIVE maxWeight(_)
maxWeight(entries) ==
  IF Len(entries) = 0 THEN 0 ELSE Max(Head(entries).weight, maxWeight(Tail(entries)))

\* the final score without the cap at 1.0
finalScoreNoCap(maxScore, matchCount, boostStep, boostMax) ==
  maxScore + Min(boostMax, (matchCount - 1) * boostStep)

\* Math.min(1.0, maxScore + Math.min(boostMax, (matchCount - 1) * boostStep))
finalScore(maxScore, matchCount, boostStep, boostMax) ==
  Min(1000, maxScore + Min(boostMax, (matchCount - 1) * boostStep))

\* The scoring loop shared by detectDomains and detectStacks: the categories
\* with at least one matching keyword and their scores, in table order
keywordScores(lowerQuery, table) ==
  LET scored == [i \in 1..Len(table) |->
                   LET matched == matchedEntries(lowerQuery, table[i].keywords)
                   IN  [domain |-> table[i].category,
                        matchCount |-> Len(matched),
                        confidence |-> finalScore(maxWeight(matched), Len(matched), 30, 100)]]
      hit == SelectSeq(scored, LAMBDA r : r.matchCount > 0)
  IN  [i \in 1..Len(hit) |-> [domain |-> hit[i].domain, confidence |-> hit[i].confidence]]

\* results.sort((a, b) => b.confidence - a.confidence)
sortByConfidenceDesc(results) ==
  LET order == stableOrderDesc([i \in 1..Len(results) |-> results[i].confidence])
  IN  [k \in 1..Len(results) |-> results[order[k]]]

\* detectDomains
detectDomains(query) ==
  SelectSeq(sortByConfidenceDesc(keywordScores(toLowerCase(query), domainKeywordsWeighted)),
            LAMBDA r : r.confidence >= 200)

\* detectStacks
detectStacks(query) ==
  SelectSeq(sortByConfidenceDesc(keywordScores(toLowerCase(query), stackKeywordsWeighted)),
            LAMBDA r : r.confidence >= 300)

\* Keywords for page intent classification with weights
PAGE_INTENT_KEYWORDS ==
  <<[intent |-> "landing", groups |-> <<
        [keywords |-> <<"landing page">>, weight |-> 1000],
        [keywords |-> <<"landing">>, weight |-> 950],
        [keywords |-> <<"homepage", "home page">>, weight |-> 900],
        [keywords |-> <<"website", "web site">>, weight |-> 850],
        [keywords |-> <<"hero">>, weight |-> 800],
        [keywords |-> <<"cta", "call to action">>, weight |-> 750],
        [keywords |-> <<"site">>, weight |-> 700],
        [keywords |-> <<"web">>, weight |-> 600]>>],
    [intent |-> "dashboard", groups |-> <<
        [keywords |-> <<"dashboard">>, weight |-> 1000],
        [keywords |-> <<"admin panel", "admin dashboard">>, weight |-> 950],
        [keywords |-> <<"analytics">>, weight |-> 900],
        [keywords |-> <<"metrics">>, weight |-> 850],
        [keywords |-> <<"kpi", "kpis">>, weight |-> 800],
        [keywords |-> <<"admin">>, weight |-> 750],
        [keywords |-> <<"panel">>, weight |-> 700]>>],
    [intent |-> "page", groups |-> <<
        [keywords |-> <<"page">>, weight |-> 600]>>]>>

\* Math.round(x * 100) / 100 for x in thousandths
round2(x) == ((x + 5) \div 10) * 10

\* the (intent, keyword, weight) triples of PAGE_INTENT_KEYWORDS in the order
\* the nested loops of classifyPageIntent visit them
RECURSIVE flatten(_)
flatten(seqs) ==
  IF Len(seqs) = 0 THEN <<>> ELSE Head(seqs) \o flatten(Tail(seqs))

pageIntentEntries ==
  flatten([i \in 1..Len(PAGE_INTENT_KEYWORDS) |->
    flatten([g \in 1..Len(PAGE_INTENT_KEYWORDS[i].groups) |->
      [k \in 1..Len(PAGE_INTENT_KEYWORDS[i].groups[g].keywords) |->
         [intent |-> PAGE_INTENT_KEYWORDS[i].intent,
          keyword |-> PAGE_INTENT_KEYWORDS[i].groups[g].keywords[k],
          weight |-> PAGE_INTENT_KEYWORDS[i].groups[g].weight]]])])

\* phraseMatches.sort((a, b) => a.position - b.position || b.weight - a.weight):
\* stable, by position ascending and then weight descending
sortPhraseMatches(matches) ==
  LET order == stableOrderDesc([i \in 1..Len(matches) |->
                                  0 - (matches[i].position * 1001 + (1000 - matches[i].weight))])
  IN  [k \in 1..Len(matches) |-> matches[order[k]]]

\* Math.round(Math.max(0.3, weight - Math.min(0.3, position * 0.05)) * 100) / 100
positionConfidence(weight, position) ==
  round2(Max(300, weight - Min(300, position * 50)))

\* PHASE 2 of classifyPageIntent: the first token, left to right, that equals
\* a single-word keyword of weight >= 0.6
RECURSIVE singleWordScan(_, _)
singleWordScan(tokens, i) ==
  IF i > Len(tokens)
    THEN [intent |-> "unknown", confidence |-> 0, matchedKeyword |-> "",
          hasKeyword |-> FALSE, position |-> -1,
          warnings |-> <<"No page intent keywords detected in query">>]
  ELSE LET hits == SelectSeq(pageIntentEntries,
                     LAMBDA e : ~includes(e.keyword, " ") /\ tokens[i] = e.keyword
                                /\ e.weight >= 600)
       IN  IF Len(hits) > 0
             THEN [intent |-> hits[1].intent,
                   confidence |-> positionConfidence(hits[1].weight, i - 1),
                   matchedKeyword |-> hits[1].keyword, hasKeyword |-> TRUE,
                   position |-> i - 1, warnings |-> <<>>]
             ELSE singleWordScan(tokens, i + 1)

\* classifyPageIntent without its phrase phase: the single-word scan alone
classifyPageIntentSingleWords(query) ==
  singleWordScan(splitWhitespace(trim(toLowerCase(query))), 1)

\* classifyPageIntent (matchedKeyword null is hasKeyword = FALSE)
classifyPageIntent(query) ==
  LET lowerQuery == trim(toLowerCase(query))
      phrases == SelectSeq(pageIntentEntries,
                   LAMBDA e : includes(e.keyword, " ") /\ indexOf(lowerQuery, e.keyword) # -1)
      phraseMatches == [i \in 1..Len(phrases) |->
                          [phrase |-> phrases[i].keyword, intent |-> phrases[i].intent,
                           weight |-> phrases[i].weight,
                           position |-> indexOf(lowerQuery, phrases[i].keyword)]]
  IN  IF Len(phraseMatches) > 0
        THEN LET best == sortPhraseMatches(phraseMatches)[1]
                 wordPosition ==
                   Len(SelectSeq(splitWhitespace(SubSeq(lowerQuery, 1, best.position)),
                                 LAMBDA piece : Len(piece) > 0))
             IN  [intent |-> best.intent,
                  confidence |-> positionConfidence(best.weight, wordPosition),
                  matchedKeyword |-> best.phrase, hasKeyword |-> TRUE,
                  position |-> wordPosition, warnings |-> <<>>]
        ELSE singleWordScan(splitWhitespace(lowerQuery), 1)

\* Platform-specific keywords with weights for intent detection
PLATFORM_KEYWORDS ==
  <<[category |-> "web", keywords |-> <<
        [keyword |-> "viewport", weight |-> 700],
        [keyword |-> "responsive", weight |-> 700],
        [keyword |-> "navbar", weight |-> 700],
        [keyword |-> "header", weight |-> 600],
        [keyword |-> "footer", weight |-> 600],
        [keyword |-> "sidebar", weight |-> 700],
        [keyword |-> "hero section", weight |-> 800],
        [keyword |-> "mega menu", weight |-> 800],
        [keyword |-> "breadcrumbs", weight |-> 700],
        [keyword |-> "modal", weight |-> 500],
        [keyword |-> "popup", weight |-> 600],
        [keyword |-> "carousel", weight |-> 600],
        [keyword |-> "hover states", weight |-> 800],
        [keyword |-> "above the fold", weight |-> 800],
        [keyword |-> "page", weight |-> 400],
        [keyword |-> "sticky header", weight |-> 800],
        [keyword |-> "multi-column", weight |-> 700],
        [keyword |-> "css grid", weight |-> 700],
        [keyword |-> "media queries", weight |-> 800],
        [keyword |-> "hamburger menu", weight |-> 600],
        [keyword |-> "seo", weight |-> 800],
        [keyword |-> "lighthouse", weight |-> 900],
        [keyword |-> "web vitals", weight |-> 900],
        [keyword |-> "pwa", weight |-> 800],
        [keyword |-> "progressive web app", weight |-> 900],
        [keyword |-> "landing page", weight |-> 700],
        [keyword |-> "website", weight |-> 600],
        [keyword |-> "web app", weight |-> 700],
        [keyword |-> "browser", weight |-> 600]>>],
    [category |-> "mobile-ios", keywords |-> <<
        [keyword |-> "tab bar", weight |-> 800],
        [keyword |-> "navigation bar", weight |-> 600],
        [keyword |-> "bottom sheet", weight |-> 700],
        [keyword |-> "segmented control", weight |-> 900],
        [keyword |-> "sf symbols", weight |-> 1000],
        [keyword |-> "swipe gesture", weight |-> 600],
        [keyword |-> "edge swipe", weight |-> 800],
        [keyword |-> "haptic feedback", weight |-> 700],
        [keyword |-> "safe area", weight |-> 900],
        [keyword |-> "navigationstack", weight |-> 1000],
        [keyword |-> "navigationlink", weight |-> 1000],
        [keyword |-> "hig", weight |-> 900],
        [keyword |-> "human interface guidelines", weight |-> 1000],
        [keyword |-> "pull-to-refresh", weight |-> 600],
        [keyword |-> "long-press", weight |-> 500],
        [keyword |-> "touch target", weight |-> 500],
        [keyword |-> "hit area", weight |-> 600],
        [keyword |-> "dynamic type", weight |-> 900],
        [keyword |-> "ios app", weight |-> 1000],
        [keyword |-> "iphone", weight |-> 900],
        [keyword |-> "ipad", weight |-> 900],
        [keyword |-> "uikit", weight |-> 1000],
        [keyword |-> "swiftui", weight |-> 1000],
        [keyword |-> "ios", weight |-> 1000],
        [keyword |-> "cupertino", weight |-> 1000]>>],
    [category |-> "mobile-android", keywords |-> <<
        [keyword |-> "bottom navigation", weight |-> 800],
        [keyword |-> "navigation drawer", weight |-> 900],
        [keyword |-> "fab", weight |-> 800],
        [keyword |-> "floating action button", weight |-> 900],
        [keyword |-> "top app bar", weight |-> 900],
        [keyword |-> "snackbar", weight |-> 900],
        [keyword |-> "chips", weight |-> 600],
        [keyword |-> "material 3", weight |-> 1000],
        [keyword |-> "material you", weight |-> 1000],
        [keyword |-> "adaptive layouts", weight |-> 800],
        [keyword |-> "gesture navigation", weight |-> 700],
        [keyword |-> "up arrow", weight |-> 700],
        [keyword |-> "foldable", weight |-> 900],
        [keyword |-> "multi-window", weight |-> 800],
        [keyword |-> "dynamic color", weight |-> 900],
        [keyword |-> "surface", weight |-> 500],
        [keyword |-> "scaffold", weight |-> 800],
        [keyword |-> "android app", weight |-> 900],
        [keyword |-> "jetpack compose", weight |-> 1000],
        [keyword |-> "material design", weight |-> 800],
        [keyword |-> "android", weight |-> 700],
        [keyword |-> "kotlin", weight |-> 800]>>],
    [category |-> "cross-platform", keywords |-> <<
        [keyword |-> "react native", weight |-> 1000],
        [keyword |-> "flutter", weight |-> 1000],
        [keyword |-> "expo", weight |-> 900],
        [keyword |-> "kotlin multiplatform", weight |-> 1000],
        [keyword |-> "cross-platform", weight |-> 900],
        [keyword |-> "shared codebase", weight |-> 900],
        [keyword |-> "hot reload", weight |-> 800],
        [keyword |-> "platform-specific", weight |-> 700],
        [keyword |-> "widget", weight |-> 500],
        [keyword |-> "component tree", weight |-> 600],
        [keyword |-> "declarative", weight |-> 500],
        [keyword |-> "state management", weight |-> 500],
        [keyword |-> "navigator", weight |-> 600],
        [keyword |-> "stack navigator", weight |-> 900],
        [keyword |-> "tab navigator", weight |-> 900],
        [keyword |-> "drawer navigator", weight |-> 900]>>],
    [category |-> "mobile-generic", keywords |-> <<
        [keyword |-> "mobile", weight |-> 600],
        [keyword |-> "app", weight |-> 400],
        [keyword |-> "native", weight |-> 600],
        [keyword |-> "touch", weight |-> 500],
        [keyword |-> "gesture", weight |-> 500],
        [keyword |-> "swipe", weight |-> 500],
        [keyword |-> "bottom tabs", weight |-> 700],
        [keyword |-> "screen", weight |-> 400],
        [keyword |-> "view", weight |-> 300],
        [keyword |-> "modal presentation", weight |-> 600],
        [keyword |-> "push navigation", weight |-> 700],
        [keyword |-> "pop navigation", weight |-> 700],
        [keyword |-> "mobile ui", weight |-> 800],
        [keyword |-> "mobile design", weight |-> 800]>>]>>

\* Framework name mapping for detected platforms
FRAMEWORK_KEYWORDS ==
  <<[category |-> "mobile-ios", keywords |-> <<
        [keyword |-> "swiftui", framework |-> "swiftui"],
        [keyword |-> "uikit", framework |-> "uikit"]>>],
    [category |-> "mobile-android", keywords |-> <<
        [keyword |-> "jetpack compose", framework |-> "jetpack-compose"],
        [keyword |-> "kotlin", framework |-> "jetpack-compose"],
        [keyword |-> "material 3", framework |-> "jetpack-compose"]>>],
    [category |-> "cross-platform", keywords |-> <<
        [keyword |-> "flutter", framework |-> "flutter"],
        [keyword |-> "react native", framework |-> "react-native"],
        [keyword |-> "react-native", framework |-> "react-native"],
        [keyword |-> "expo", framework |-> "react-native"],
        [keyword |-> "kotlin multiplatform", framework |-> "kotlin-multiplatform"]>>]>>

\* platformScores with the boost of the domain classifier
platformScoresDomainBoost(lowerQuery) ==
  [i \in 1..Len(PLATFORM_KEYWORDS) |->
     LET matched == matchedEntries(lowerQuery, PLATFORM_KEYWORDS[i].keywords)
     IN  [platform |-> PLATFORM_KEYWORDS[i].category,
          score |-> IF Len(matched) > 0
                      THEN finalScore(maxWeight(matched), Len(matched), 30, 100)
                      ELSE 0,
          keywords |-> [k \in 1..Len(matched) |-> matched[k].keyword]]]

\* the scoring loop of detectPlatformIntent: score and matched keywords of
\* every platform, 0 and none for a platform without a match
platformScores(lowerQuery) ==
  [i \in 1..Len(PLATFORM_KEYWORDS) |->
     LET matched == matchedEntries(lowerQuery, PLATFORM_KEYWORDS[i].keywords)
     IN  [platform |-> PLATFORM_KEYWORDS[i].category,
          score |-> IF Len(matched) > 0
                      THEN finalScore(maxWeight(matched), Len(matched), 50, 150)
                      ELSE 0,
          keywords |-> [k \in 1..Len(matched) |-> matched[k].keyword]]]

\* the first platform with the highest score, "web" with score 0 if none scores
RECURSIVE bestPlatformFrom(_, _, _)
bestPlatformFrom(scores, i, best) ==
  IF i > Len(scores) THEN best
  ELSE bestPlatformFrom(scores, i + 1,
                        IF scores[i].score > best.score THEN scores[i] ELSE best)

\* the framework of the first FRAMEWORK_KEYWORDS entry of the platform that
\* matches the query, "" (undefined) if there is none
detectFramework(lowerQuery, platform) ==
  LET tables == SelectSeq(FRAMEWORK_KEYWORDS, LAMBDA t : t.category = platform)
      hits == IF Len(tables) = 0 THEN <<>>
              ELSE SelectSeq(tables[1].keywords,
                             LAMBDA e : matchesKeyword(lowerQuery, e.keyword))
  IN  IF Len(hits) > 0 THEN hits[1].framework ELSE ""

\* detectPlatformIntent
detectPlatformIntent(query) ==
  LET detect(lowerQuery) ==
        LET result(best) ==
              IF best.score = 0
                THEN [platform |-> "web", confidence |-> 300,
                      matched_keywords |-> <<>>, framework |-> ""]
                ELSE [platform |-> best.platform, confidence |-> round2(best.score),
                      matched_keywords |-> best.keywords,
                      framework |-> detectFramework(lowerQuery, best.platform)]
        IN  result(bestPlatformFrom(platformScores(lowerQuery), 1,
                                    [platform |-> "web", score |-> 0,
                                     keywords |-> <<>>]))
  IN  detect(toLowerCase(query))

----------------------------------------------------------------------------
(* JavaScript values of type unknown and their coercions                   *)

\* A value is undefined, null, a string, a number, a boolean or an object.  A
\* number is num/den with den a power of ten (den = 1 for an integer); den = 0
\* marks NaN (num = 0) and +/-Infinity (num = 1 / -1).
undefined == [t |-> "undefined"]
Str(s) == [t |-> "string", str |-> s]
Num(n) == [t |-> "number", num |-> n, den |-> 1]
Dec(n, d) == [t |-> "number", num |-> n, den |-> d]
NaN == [t |-> "number", num |-> 0, den |-> 0]
Bool(v) == [t |-> "boolean", bool |-> v]
\* an object whose conversion to a primitive yields text: "[object Object]"
\* for a plain object such as {}, the joined elements for an array
Obj(text) == [t |-> "object", text |-> text]
\* an object with no callable toString or valueOf, such as the value of the
\* JSON text {"toString": 1, "valueOf": 1}
NoPrimitive == [t |-> "object"]

\* ToPrimitive(value) throws a TypeError instead of yielding a primitive
ToPrimitiveThrows(x) == x # null /\ x.t = "object" /\ "text" \notin DOMAIN x

\* An exception leaving a function in place of its return value
TypeError ==
  [kind |-> "throw", error |-> "TypeError: Cannot convert object to primitive value",
   searches |-> <<>>, validated |-> <<>>]

IsThrown(value) == "kind" \in DOMAIN value /\ value.kind = "throw"

\* typeof
TypeOf(x) == IF x = null THEN "object" ELSE x.t

IsDigits(s) == Len(s) > 0 /\ \A i \in 1..Len(s) : CharAt(s, i) \in Digits

DigitValue(c) == CHOOSE d \in 0..9 : ToString(d) = c

RECURSIVE DigitsValue(_)
DigitsValue(s) ==
  IF Len(s) = 0 THEN 0
  ELSE 10 * DigitsValue(SubSeq(s, 1, Len(s) - 1)) + DigitValue(CharAt(s, Len(s)))

RECURSIVE Pow10(_)
Pow10(n) == IF n = 0 THEN 1 ELSE 10 * Pow10(n - 1)

\* num/den in lowest decimal terms: 2.50 is 25/10 and 5.0 is 5/1
RECURSIVE Normalize(_)
Normalize(x) ==
  IF x.den > 1 /\ x.num % 10 = 0
    THEN Normalize(Dec(x.num \div 10, x.den \div 10))
    ELSE x

\* StringToNumber for decimal literals without exponent: surrounding white
\* space is ignored, "" is 0, anything that is not a literal is NaN
StringToNumber(s) ==
  LET parse(text) ==
        LET signed == Len(text) > 0 /\ CharAt(text, 1) \in {"+", "-"}
            sign == IF signed /\ CharAt(text, 1) = "-" THEN -1 ELSE 1
            parseBody(body) ==
              LET parseAt(dot) ==
                    LET whole == IF dot < 0 THEN body ELSE SubSeq(body, 1, dot)
                        frac == IF dot < 0 THEN ""
                                ELSE SubSeq(body, dot + 2, Len(body))
                    IN  IF dot < 0
                          THEN (IF IsDigits(body) THEN Num(sign * DigitsValue(body))
                                ELSE NaN)
                        ELSE IF /\ Len(whole) = 0 \/ IsDigits(whole)
                                /\ Len(frac) = 0 \/ IsDigits(frac)
                                /\ Len(whole) + Len(frac) > 0
                          THEN Normalize(Dec(sign * (DigitsValue(whole) * Pow10(Len(frac))
                                                       + DigitsValue(frac)),
                                             Pow10(Len(frac))))
                        ELSE NaN
              IN  IF body = "Infinity" THEN Dec(sign, 0)
                  ELSE parseAt(indexOf(body, "."))
        IN  IF Len(text) = 0 THEN Num(0)
            ELSE parseBody(IF signed THEN SubSeq(text, 2, Len(text)) ELSE text)
  IN  parse(trim(s))

\* Number(value)
Number(x) ==
  IF x = null THEN Num(0)
  ELSE CASE x.t = "undefined" -> NaN
         [] x.t = "number" -> x
         [] x.t = "boolean" -> IF x.bool THEN Num(1) ELSE Num(0)
         [] x.t = "string" -> StringToNumber(x.str)
         [] x.t = "object" -> StringToNumber(x.text)

\* Number.isInteger
NumberIsInteger(x) == x.den = 1

\* isNaN of a number
isNaN(x) == x.den = 0 /\ x.num = 0

\* the digits of n left-padded with zeros to the given width
RECURSIVE PadDigits(_, _)
PadDigits(n, width) ==
  IF width = 0 THEN "" ELSE PadDigits(n \div 10, width - 1) \o ToString(n % 10)

\* the number of decimal places of a power of ten
RECURSIVE Places(_)
Places(d) == IF d <= 1 THEN 0 ELSE 1 + Places(d \div 10)

\* Number::toString of num/den
NumberToString(x) ==
  IF x.den = 0 THEN (IF x.num = 0 THEN "NaN"
                     ELSE IF x.num > 0 THEN "Infinity" ELSE "-Infinity")
  ELSE IF x.den = 1 THEN ToString(x.num)
  ELSE LET magnitude == IF x.num < 0 THEN -x.num ELSE x.num
       IN  (IF x.num < 0 THEN "-" ELSE "")
           \o ToString(magnitude \div x.den) \o "."
           \o PadDigits(magnitude % x.den, Places(x.den))

\* String(value)
String(x) ==
  IF x = null THEN "null"
  ELSE CASE x.t = "undefined" -> "undefined"
         [] x.t = "string" -> x.str
         [] x.t = "number" -> NumberToString(x)
         [] x.t = "boolean" -> IF x.bool THEN "true" ELSE "false"
         [] x.t = "object" -> x.text

----------------------------------------------------------------------------
(* Query expansion and input validation (tools/handlers.ts)                *)

DOMAIN_MAPPINGS ==
  <<[key |-> "crypto",
     value |-> "dashboard numbers metrics chart dark mode"],
    [key |-> "fintech",
     value |-> "pricing table trust security calculator data"],
    [key |-> "modern",
     value |-> "clean minimal bento gradient"],
    [key |-> "ecommerce",
     value |-> "gallery image search filter pricing plans reviews hero cart"],
    [key |-> "healthcare",
     value |-> "dashboard metrics table trust profile form clean medical"],
    [key |-> "education",
     value |-> "dashboard profile search gallery clean learning course"],
    [key |-> "realestate",
     value |-> "map location gallery image search filter property listing"],
    [key |-> "travel",
     value |-> "map location gallery image search filter reviews destination booking"],
    [key |-> "saas",
     value |-> "dashboard chart metrics pricing plans table modern analytics toggle dark mode theme switch scroll navigation footer utility back-to-top accessibility"],
    [key |-> "gaming",
     value |-> "dark mode social profile feed gallery modern stream immersive"],
    [key |-> "social",
     value |-> "feed profile social gallery search modern community chat"],
    [key |-> "news",
     value |-> "feed search bento clean modern image article trending"],
    [key |-> "portfolio",
     value |-> "gallery image profile clean modern bento showcase creative"],
    [key |-> "landing",
     value |-> "hero cta testimonials pricing features section toggle navigation header footer utility scroll dark-mode light-mode theme accessibility back-to-top"],
    [key |-> "dashboard",
     value |-> "analytics chart metrics kpi toggle dark mode theme panel sidebar navigation utility"],
    [key |-> "page",
     value |-> "landing hero section toggle dark mode navigation footer header utility accessibility"],
    [key |-> "security",
     value |-> "authentication password validation privacy alerts trust shield"],
    [key |-> "trust",
     value |-> "reviews testimonials badges secure verified"],
    [key |-> "analytics",
     value |-> "dashboard chart metrics table data visualization report"],
    [key |-> "onboarding",
     value |-> "form profile clean modern step guide welcome"],
    [key |-> "conversion",
     value |-> "pricing plans reviews trust hero cta signup"],
    [key |-> "hero",
     value |-> "hero-centric headline visual banner above-fold primary"],
    [key |-> "pricing",
     value |-> "pricing-focused plans tiers comparison subscription"],
    [key |-> "testimonials",
     value |-> "social-proof reviews trust badges authority"],
    [key |-> "features",
     value |-> "feature-grid benefits highlights showcase"],
    [key |-> "cta",
     value |-> "call-to-action button conversion signup"],
    [key |-> "website",
     value |-> "landing page hero cta testimonials features section"],
    [key |-> "web",
     value |-> "landing page hero cta section"],
    [key |-> "site",
     value |-> "landing page hero cta section"],
    [key |-> "homepage",
     value |-> "landing hero features cta testimonials pricing"],
    [key |-> "admin",
     value |-> "dashboard panel analytics metrics sidebar"],
    [key |-> "panel",
     value |-> "dashboard admin analytics metrics sidebar"],
    [key |-> "metrics",
     value |-> "dashboard analytics chart kpi data"],
    [key |-> "kpi",
     value |-> "dashboard metrics analytics chart data"],
    [key |-> "ios",
     value |-> "hig human interface guidelines iphone ipad sf symbols cupertino design system apple guidelines swiftui like mobile native"],
    [key |-> "platform",
     value |-> "ios hig human interface iphone ipad sf symbols cupertino apple design swiftui style android material flutter native mobile"],
    [key |-> "iphone",
     value |-> "ios mobile hig human interface guidelines apple native cupertino sf symbols"],
    [key |-> "ipad",
     value |-> "ios tablet hig human interface guidelines apple native cupertino sf symbols"],
    [key |-> "apple",
     value |-> "ios hig human interface guidelines iphone ipad sf symbols cupertino design system swiftui native"],
    [key |-> "cupertino",
     value |-> "ios apple hig human interface guidelines sf symbols iphone ipad flutter native"],
    [key |-> "hig",
     value |-> "ios apple human interface guidelines cupertino sf symbols design system native mobile"],
    [key |-> "ios style",
     value |-> "cupertino hig human interface sf symbols apple design flutter react-native without swift"],
    [key |-> "swiftui style",
     value |-> "ios cupertino hig sf symbols apple design flutter react-native"],
    [key |-> "cupertino style",
     value |-> "ios hig flutter react-native apple design sf symbols"],
    [key |-> "ios without swift",
     value |-> "cupertino flutter react-native ios style hig sf symbols"],
    [key |-> "ios flutter",
     value |-> "cupertino hig sf symbols apple design ios style cross-platform"],
    [key |-> "ios react native",
     value |-> "cupertino hig sf symbols apple design ios style cross-platform"],
    [key |-> "android",
     value |-> "material material design m3 material you google design jetpack compose kotlin ui dynamic color tonal elevation"],
    [key |-> "material",
     value |-> "android material design m3 material 3 material you google design dynamic color tonal elevation"],
    [key |-> "material 3",
     value |-> "android material design m3 material you google design jetpack compose dynamic color"],
    [key |-> "material design",
     value |-> "android m3 material 3 material you google design dynamic color tonal elevation"],
    [key |-> "m3",
     value |-> "android material material 3 material design material you google design dynamic color"],
    [key |-> "jetpack compose",
     value |-> "android material m3 kotlin ui compose google design native"],
    [key |-> "compose",
     value |-> "android jetpack compose kotlin ui material m3 google design native"],
    [key |-> "kotlin ui",
     value |-> "android jetpack compose compose material m3 google design native"],
    [key |-> "google design",
     value |-> "android material m3 material design material you dynamic color tonal elevation"],
    [key |-> "android hig",
     value |-> "material material design m3 material you google design jetpack compose"],
    [key |-> "material you",
     value |-> "android material m3 material design dynamic color personalization google design"],
    [key |-> "dynamic color",
     value |-> "android material you m3 material 3 personalization theming google design"],
    [key |-> "tonal elevation",
     value |-> "android material m3 surface elevation depth google design"],
    [key |-> "android style",
     value |-> "material m3 material design jetpack compose flutter react-native without kotlin"],
    [key |-> "material style",
     value |-> "android m3 material design flutter react-native google design"],
    [key |-> "android flutter",
     value |-> "material m3 material design android style cross-platform flutter"],
    [key |-> "android react native",
     value |-> "material m3 material design android style cross-platform react-native"]>>

\* Object.keys(DOMAIN_EXPANSION).sort((a, b) => b.length - a.length)
sortedKeys ==
  LET order == stableOrderDesc([i \in 1..Len(DOMAIN_MAPPINGS) |->
                                  Len(DOMAIN_MAPPINGS[i].key)])
  IN  [k \in 1..Len(DOMAIN_MAPPINGS) |-> DOMAIN_MAPPINGS[order[k]].key]

\* DOMAIN_EXPANSION[key]
DOMAIN_EXPANSION(key) ==
  LET i == CHOOSE j \in 1..Len(DOMAIN_MAPPINGS) : DOMAIN_MAPPINGS[j].key = key
  IN  DOMAIN_MAPPINGS[i].value

\* expandQuery that stops at the first (longest) key the query contains
expandQueryLongestOnly(query) ==
  LET expand(found) ==
        join(<<query>> \o [i \in 1..Len(found) |-> DOMAIN_EXPANSION(found[i])], " ")
      first(found) == IF found = <<>> THEN <<>> ELSE <<found[1]>>
      scan(lowerQuery) ==
        expand(first(SelectSeq(sortedKeys, LAMBDA key : includes(lowerQuery, key))))
  IN  scan(toLowerCase(query))

\* expandQuery: the query followed by the value of every key it contains
expandQuery(query) ==
  LET expand(found) ==
        join(<<query>> \o [i \in 1..Len(found) |-> DOMAIN_EXPANSION(found[i])], " ")
      scan(lowerQuery) ==
        expand(SelectSeq(sortedKeys, LAMBDA key : includes(lowerQuery, key)))
  IN  scan(toLowerCase(query))

\* a failed ValidationResult
invalidInput(queryStr, error) ==
  [valid |-> FALSE, query |-> queryStr, originalQuery |-> queryStr,
   maxResults |-> 3, error |-> error]

\* a successful ValidationResult: the expanded query and the original one
validInput(queryStr, maxResultsNum) ==
  [valid |-> TRUE, query |-> expandQuery(queryStr), originalQuery |-> queryStr,
   maxResults |-> maxResultsNum]

\* validateSearchInput with the length test on the untrimmed string

\* validateSearchInput with the length test on the untrimmed string
validateSearchInputUntrimmedLength(query, maxResultsArg) ==
  LET maxResults == IF maxResultsArg = undefined THEN Num(3) ELSE maxResultsArg
      validateMaxResults(queryStr, maxResultsNum) ==
        IF ~NumberIsInteger(maxResultsNum) \/ isNaN(maxResultsNum)
          THEN invalidInput(queryStr, "max_results must be a positive integer")
        ELSE IF maxResultsNum.num < 1
          THEN invalidInput(queryStr, "max_results must be at least 1")
        ELSE IF maxResultsNum.num > 50
          THEN invalidInput(queryStr, "max_results cannot exceed 50")
        ELSE validInput(queryStr, maxResultsNum.num)
      validateQuery(queryStr) ==
        IF Len(queryStr) = 0
          THEN invalidInput("", "Query cannot be empty")
        ELSE IF Len(String(query)) > 500
          THEN invalidInput("", "Query exceeds maximum length of 500 characters")
        ELSE IF maxResults # undefined /\ maxResults # null
          THEN IF ToPrimitiveThrows(maxResults) THEN TypeError
               ELSE validateMaxResults(queryStr, Number(maxResults))
        ELSE validInput(queryStr, 3)
  IN  IF query = undefined \/ query = null
        THEN invalidInput("", "Query is required")
      ELSE IF ToPrimitiveThrows(query) THEN TypeError
      ELSE validateQuery(trim(String(query)))

\* validateSearchInput; an omitted maxResults takes the parameter default 3

\* validateSearchInput; an omitted maxResults takes the parameter default 3
validateSearchInput(query, maxResultsArg) ==
  LET maxResults == IF maxResultsArg = undefined THEN Num(3) ELSE maxResultsArg
      validateMaxResults(queryStr, maxResultsNum) ==
        IF ~NumberIsInteger(maxResultsNum) \/ isNaN(maxResultsNum)
          THEN invalidInput(queryStr, "max_results must be a positive integer")
        ELSE IF maxResultsNum.num < 1
          THEN invalidInput(queryStr, "max_results must be at least 1")
        ELSE IF maxResultsNum.num > 50
          THEN invalidInput(queryStr, "max_results cannot exceed 50")
        ELSE validInput(queryStr, maxResultsNum.num)
      validateQuery(queryStr) ==
        IF Len(queryStr) = 0
          THEN invalidInput("", "Query cannot be empty")
        ELSE IF Len(queryStr) > 500
          THEN invalidInput("", "Query exceeds maximum length of 500 characters")
        ELSE IF maxResults # undefined /\ maxResults # null
          THEN IF ToPrimitiveThrows(maxResults) THEN TypeError
               ELSE validateMaxResults(queryStr, Number(maxResults))
        ELSE validInput(queryStr, 3)
  IN  IF query = undefined \/ query = null
        THEN invalidInput("", "Query is required")
      ELSE IF ToPrimitiveThrows(query) THEN TypeError
      ELSE validateQuery(trim(String(query)))

----------------------------------------------------------------------------
(* Data loading (data/loader.ts)                                           *)

\* record[name] || ''
Field(record, name) == IF name \in DOMAIN record THEN record[name] ELSE ""

\* { ...target, ...source }
Assign(target, source) ==
  [f \in DOMAIN target \cup DOMAIN source |->
     IF f \in DOMAIN source THEN source[f] ELSE target[f]]

\* Map.prototype.get on a map kept as its entries in insertion order;
\* null stands for the undefined of a missing key
MapGet(map, key) ==
  IF \E i \in 1..Len(map) : map[i].key = key
    THEN map[CHOOSE i \in 1..Len(map) : map[i].key = key].value
    ELSE null

AVAILABLE_STACKS ==
  <<"flutter", "html-tailwind", "jetpack-compose", "nextjs", "nuxt-ui", "nuxtjs",
    "react-native", "react", "shadcn", "svelte", "swiftui", "vue">>

AVAILABLE_PLATFORMS == <<"ios", "android">>

\* loadCSV: the parsed rows of a file of the data directory, [] if it is missing
loadCSV(files, filename) ==
  IF filename \in DOMAIN files THEN files[filename] ELSE <<>>

loadStyles(files) == loadCSV(files, "styles.csv")
loadColors(files) == loadCSV(files, "colors.csv")
loadTypography(files) == loadCSV(files, "typography.csv")
loadCharts(files) == loadCSV(files, "charts.csv")
loadUXGuidelines(files) == loadCSV(files, "ux-guidelines.csv")
loadIcons(files) == loadCSV(files, "icons.csv")
loadLanding(files) == loadCSV(files, "landing.csv")
loadProducts(files) == loadCSV(files, "products.csv")
loadPrompts(files) == loadCSV(files, "prompts.csv")

loadStack(files, stackName) ==
  LET normalizedName == trim(toLowerCase(stackName))
  IN  IF normalizedName \notin Range(AVAILABLE_STACKS) THEN <<>>
      ELSE loadCSV(files, "stacks/" \o normalizedName \o ".csv")

\* loadAllStacks: the stacks that have rows, in AVAILABLE_STACKS order
loadAllStacks(files) ==
  LET loaded == [i \in 1..Len(AVAILABLE_STACKS) |->
                   [key |-> AVAILABLE_STACKS[i],
                    value |-> loadStack(files, AVAILABLE_STACKS[i])]]
  IN  SelectSeq(loaded, LAMBDA e : Len(e.value) > 0)

loadPlatform(files, platformName) ==
  LET normalizedName == trim(toLowerCase(platformName))
  IN  IF normalizedName \notin Range(AVAILABLE_PLATFORMS) THEN <<>>
      ELSE loadCSV(files, "platforms/" \o normalizedName \o ".csv")

\* loadAllPlatforms: the platforms that have rows, in AVAILABLE_PLATFORMS order
loadAllPlatforms(files) ==
  LET loaded == [i \in 1..Len(AVAILABLE_PLATFORMS) |->
                   [key |-> AVAILABLE_PLATFORMS[i],
                    value |-> loadPlatform(files, AVAILABLE_PLATFORMS[i])]]
  IN  SelectSeq(loaded, LAMBDA e : Len(e.value) > 0)

----------------------------------------------------------------------------
(* Index construction (tools/handlers.ts)                                  *)

\* [ ...fields ].filter(Boolean).join(' ')
joinFields(record, names) ==
  join(SelectSeq([i \in 1..Len(names) |-> Field(record, names[i])],
                 LAMBDA value : value # ""), " ")

createStyleContent(style) ==
  joinFields(style, <<"Style Category", "Type", "Keywords", "Best For",
                      "Do Not Use For", "Effects & Animation",
                      "Framework Compatibility", "Era/Origin", "CSS_Code",
                      "Motion_Config", "Animation_Variants">>)

createColorContent(color) ==
  joinFields(color, <<"Product Type", "Keywords", "Notes", "Tailwind_Config",
                      "Glow_Effects", "Dark_Mode_Colors", "Semantic_Mapping",
                      "Data_Viz_Palette", "Semantic_Tokens">>)

createTypographyContent(typo) ==
  joinFields(typo, <<"Font Pairing Name", "Category", "Heading Font", "Body Font",
                     "Mood/Style Keywords", "Best For", "Notes">>)

createChartContent(chart) ==
  joinFields(chart, <<"Data Type", "Keywords", "Best Chart Type",
                      "Secondary Options", "Accessibility Notes",
                      "Library Recommendation", "ChartJS_Config",
                      "Recharts_Config", "Data_Schema", "Mock_Data_Example">>)

createUXGuidelineContent(ux) ==
  joinFields(ux, <<"Category", "Issue", "Platform", "Description", "Do", "Don't">>)

createIconContent(icon) ==
  joinFields(icon, <<"Category", "Icon Name", "Keywords", "Best For", "Style",
                     "Animation_Class">>)

\* three of the landing fields are listed twice
createLandingContent(landing) ==
  joinFields(landing, <<"Pattern Name", "Keywords", "Section Order",
                        "Primary CTA Placement", "Color Strategy",
                        "Recommended Effects", "Primary CTA Placement",
                        "Color Strategy", "Recommended Effects",
                        "Conversion Optimization", "Layout_CSS",
                        "Responsive_Strategy", "Grid_System_Config",
                        "Bento_Layout_Map">>)

createProductContent(product) ==
  joinFields(product, <<"Product Type", "Keywords", "Primary Style Recommendation",
                        "Secondary Styles", "Key Considerations">>)

createPromptContent(prompt) ==
  joinFields(prompt, <<"Style Category", "AI Prompt Keywords (Copy-Paste Ready)",
                       "CSS/Technical Keywords", "Implementation Checklist",
                       "Design System Variables">>)

createStackContent(stack) ==
  joinFields(stack, <<"Category", "Guideline", "Description", "Do", "Don't",
                      "Code Good", "Code Bad">>)

createPlatformContent(platform) ==
  joinFields(platform, <<"Category", "Pattern", "Description", "Do", "Don't",
                         "iOS_Value", "Flutter_Equiv", "RN_Equiv">>)

\* the create...Content function initializeIndexes applies to records of a type
createContent(type, item) ==
  CASE type = "style" -> createStyleContent(item)
    [] type = "color" -> createColorContent(item)
    [] type = "typography" -> createTypographyContent(item)
    [] type = "chart" -> createChartContent(item)
    [] type = "ux-guideline" -> createUXGuidelineContent(item)
    [] type = "icon" -> createIconContent(item)
    [] type = "landing" -> createLandingContent(item)
    [] type = "product" -> createProductContent(item)
    [] type = "prompt" -> createPromptContent(item)
    [] type = "stack" -> createStackContent(item)
    [] type = "platform" -> createPlatformContent(item)

\* data.map((item, idx) => ({ id: `${prefix}-${idx}`, content, data: { ...tag, ...item } }))
mapDocuments(data, prefix, tag) ==
  [i \in 1..Len(data) |->
     [id |-> prefix \o "-" \o ToString(i - 1),
      content |-> createContent(tag.type, data[i]),
      data |-> Assign(tag, data[i])]]

\* the documents of every stack of stacksData, per stack
stackDocuments(loadedStacks) ==
  [i \in 1..Len(loadedStacks) |->
     [key |-> loadedStacks[i].key,
      value |-> mapDocuments(loadedStacks[i].value, "stack-" \o loadedStacks[i].key,
                             [type |-> "stack", stackName |-> loadedStacks[i].key])]]

\* the documents of every platform of platformsData, per platform
platformDocuments(loadedPlatforms) ==
  [i \in 1..Len(loadedPlatforms) |->
     [key |-> loadedPlatforms[i].key,
      value |-> mapDocuments(loadedPlatforms[i].value,
                             "platform-" \o loadedPlatforms[i].key,
                             [type |-> "platform",
                              platformName |-> loadedPlatforms[i].key])]]

\* one BM25 index per non-empty document list, in insertion order
indexEach(documentsByName) ==
  LET kept == SelectSeq(documentsByName, LAMBDA e : Len(e.value) > 0)
  IN  [i \in 1..Len(kept) |-> [key |-> kept[i].key, value |-> BM25(kept[i].value)]]

\* if (docs.length > 0) { index = new BM25(docs); }
indexIfAny(docs, index) == IF Len(docs) > 0 THEN BM25(docs) ELSE index

----------------------------------------------------------------------------
(* Search handlers (tools/handlers.ts)                                     *)

\* What a handler did: the SearchResponse it returned (an error or a list
\* of results), the BM25.search calls it made, and its ValidationResult if
\* it got as far as validating
SearchError(error, validated) ==
  [kind |-> "error", error |-> error, searches |-> <<>>, validated |-> validated]

SearchResults(results, searches, validation) ==
  [kind |-> "results", results |-> results, searches |-> searches,
   validated |-> <<validation>>]

\* index.search(query, maxResults) and the record of that call
searchIndex(name, index, query, maxResults) ==
  LET record(found) ==
        [results |-> found,
         searches |-> <<[index |-> name, maxResults |-> maxResults,
                         count |-> Len(found)]>>]
  IN  record(search(index, query, maxResults))

\* results.map(r => ({ data: r.document.data, score: r.score }))
toSearchResults(found) ==
  [i \in 1..Len(found) |-> [data |-> found[i].document.data, score |-> found[i].score]]

\* a parameter default: the default replaces an omitted (undefined) argument
Default(argument, value) == IF argument = undefined THEN value ELSE argument

\* Math.ceil(n / d) for positive integers
CeilDiv(n, d) == (n + d - 1) \div d

\* a single-index handler that answers a missing index with no results
searchSingleIndexSkipping(name, index, label, query, maxResults) ==
  LET respond(s, validation) ==
        SearchResults(toSearchResults(s.results), s.searches, validation)
      validated(validation) ==
        IF IsThrown(validation) THEN validation
        ELSE IF ~validation.valid THEN SearchError(validation.error, <<validation>>)
        ELSE IF index = null THEN SearchResults(<<>>, <<>>, validation)
        ELSE respond(searchIndex(name, index, validation.query, validation.maxResults),
                     validation)
  IN  validated(validateSearchInput(query, Default(maxResults, Num(3))))

\* The single-index handlers share one body: validate, test the index, search
searchSingleIndex(name, index, label, query, maxResults) ==
  LET respond(s, validation) ==
        SearchResults(toSearchResults(s.results), s.searches, validation)
      validated(validation) ==
        IF IsThrown(validation) THEN validation
        ELSE IF ~validation.valid THEN SearchError(validation.error, <<validation>>)
        ELSE IF index = null
          THEN SearchError(label \o " index not initialized", <<validation>>)
        ELSE respond(searchIndex(name, index, validation.query, validation.maxResults),
                     validation)
  IN  validated(validateSearchInput(query, Default(maxResults, Num(3))))

searchStylesOnly(query, maxResults) ==
  searchSingleIndex("styles", stylesIndex, "Styles", query, maxResults)

searchColors(query, maxResults) ==
  searchSingleIndex("colors", colorsIndex, "Colors", query, maxResults)

searchTypography(query, maxResults) ==
  searchSingleIndex("typography", typographyIndex, "Typography", query, maxResults)

searchCharts(query, maxResults) ==
  searchSingleIndex("charts", chartsIndex, "Charts", query, maxResults)

searchUXGuidelines(query, maxResults) ==
  searchSingleIndex("uxGuidelines", uxGuidelinesIndex, "UX Guidelines", query, maxResults)

searchIcons(query, maxResults) ==
  searchSingleIndex("icons", iconsIndex, "Icons", query, maxResults)

searchLanding(query, maxResults) ==
  searchSingleIndex("landing", landingIndex, "Landing", query, maxResults)

searchProducts(query, maxResults) ==
  searchSingleIndex("products", productsIndex, "Products", query, maxResults)

searchPrompts(query, maxResults) ==
  searchSingleIndex("prompts", promptsIndex, "Prompts", query, maxResults)

\* The loop of a merged search: every named index that is not null is
\* searched with the given limit
searchEach(names, indexes, query, limit) ==
  [i \in 1..Len(names) |->
     IF indexes[i] = null
       THEN [name |-> names[i], results |-> <<>>, searches |-> <<>>]
       ELSE [name |-> names[i]] @@ searchIndex(names[i], indexes[i], query, limit)]

\* the BM25.search calls of a merged search
searchesOf(each) == flatten([i \in 1..Len(each) |-> each[i].searches])

\* searchStyles without the final slice
searchStylesNoSlice(query, domainOrMaxResults, maxResults) ==
  LET byNumber == TypeOf(domainOrMaxResults) = "number"
      effectiveMaxResults == IF byNumber THEN domainOrMaxResults
                             ELSE Default(maxResults, Num(5))
      domain == IF TypeOf(domainOrMaxResults) = "string"
                  THEN domainOrMaxResults.str ELSE ""
      searchDomains == IF domain # "" THEN <<domain>>
                       ELSE <<"style", "color", "typography", "prompt">>
      domainIndex(d) == CASE d = "style" -> stylesIndex
                          [] d = "color" -> colorsIndex
                          [] d = "typography" -> typographyIndex
                          [] d = "prompt" -> promptsIndex
      domainResults(d, found) ==
        [i \in 1..Len(found) |->
           [data |-> Assign(found[i].document.data, [_domain |-> d]),
            score |-> found[i].score]]
      merged(each) ==
        flatten([i \in 1..Len(each) |-> domainResults(each[i].name, each[i].results)])
      respond(each, validation) ==
        SearchResults(sortByScoreDesc(merged(each)),
                      searchesOf(each), validation)
      validated(validation) ==
        LET resultsPerDomain ==
              IF domain # "" THEN validation.maxResults
              ELSE Max(2, CeilDiv(validation.maxResults, Len(searchDomains)))
        IN  IF IsThrown(validation) THEN validation
            ELSE IF ~validation.valid
              THEN SearchError(validation.error, <<validation>>)
            ELSE IF domain # ""
                    /\ domain \notin {"style", "color", "typography", "prompt"}
              THEN SearchError("Invalid domain: \"" \o domain
                                 \o "\". Must be one of: style, color, typography, prompt",
                               <<validation>>)
            ELSE respond(searchEach(searchDomains,
                                    [i \in 1..Len(searchDomains) |->
                                       domainIndex(searchDomains[i])],
                                    validation.query, resultsPerDomain),
                         validation)
  IN  validated(validateSearchInput(query, effectiveMaxResults))

\* searchStyles: styles, colors, typography and prompts merged.  A number as
\* second argument is maxResults; "" stands for an absent or empty domain
searchStyles(query, domainOrMaxResults, maxResults) ==
  LET byNumber == TypeOf(domainOrMaxResults) = "number"
      effectiveMaxResults == IF byNumber THEN domainOrMaxResults
                             ELSE Default(maxResults, Num(5))
      domain == IF TypeOf(domainOrMaxResults) = "string"
                  THEN domainOrMaxResults.str ELSE ""
      searchDomains == IF domain # "" THEN <<domain>>
                       ELSE <<"style", "color", "typography", "prompt">>
      domainIndex(d) == CASE d = "style" -> stylesIndex
                          [] d = "color" -> colorsIndex
                          [] d = "typography" -> typographyIndex
                          [] d = "prompt" -> promptsIndex
      domainResults(d, found) ==
        [i \in 1..Len(found) |->
           [data |-> Assign(found[i].document.data, [_domain |-> d]),
            score |-> found[i].score]]
      merged(each) ==
        flatten([i \in 1..Len(each) |-> domainResults(each[i].name, each[i].results)])
      respond(each, validation) ==
        SearchResults(slice0(sortByScoreDesc(merged(each)), validation.maxResults),
                      searchesOf(each), validation)
      validated(validation) ==
        LET resultsPerDomain ==
              IF domain # "" THEN validation.maxResults
              ELSE Max(2, CeilDiv(validation.maxResults, Len(searchDomains)))
        IN  IF IsThrown(validation) THEN validation
            ELSE IF ~validation.valid
              THEN SearchError(validation.error, <<validation>>)
            ELSE IF domain # ""
                    /\ domain \notin {"style", "color", "typography", "prompt"}
              THEN SearchError("Invalid domain: \"" \o domain
                                 \o "\". Must be one of: style, color, typography, prompt",
                               <<validation>>)
            ELSE respond(searchEach(searchDomains,
                                    [i \in 1..Len(searchDomains) |->
                                       domainIndex(searchDomains[i])],
                                    validation.query, resultsPerDomain),
                         validation)
  IN  validated(validateSearchInput(query, effectiveMaxResults))

\* results.map(r => ({ data: r.document.data, score: r.score, _domain: name }))
withDomain(name, found) ==
  [i \in 1..Len(found) |->
     [data |-> found[i].document.data, score |-> found[i].score, _domain |-> name]]

\* searchComponents: icons and charts merged
searchComponents(query, type, maxResults) ==
  LET searchTypes == IF type # undefined THEN <<type.str>> ELSE <<"icon", "chart">>
      typeIndex(t) == CASE t = "icon" -> iconsIndex [] t = "chart" -> chartsIndex
      merged(each) ==
        flatten([i \in 1..Len(each) |-> withDomain(each[i].name, each[i].results)])
      respond(each, validation) ==
        SearchResults(slice0(sortByScoreDesc(merged(each)), validation.maxResults),
                      searchesOf(each), validation)
      validated(validation) ==
        LET resultsPerType ==
              IF type # undefined THEN validation.maxResults
              ELSE Max(2, CeilDiv(validation.maxResults, Len(searchTypes)))
        IN  IF IsThrown(validation) THEN validation
            ELSE IF ~validation.valid
              THEN SearchError(validation.error, <<validation>>)
            ELSE IF type # undefined /\ type # Str("icon") /\ type # Str("chart")
              THEN SearchError("Invalid type: " \o String(type)
                                 \o ". Must be 'icon' or 'chart'", <<validation>>)
            ELSE respond(searchEach(searchTypes,
                                    [i \in 1..Len(searchTypes) |->
                                       typeIndex(searchTypes[i])],
                                    validation.query, resultsPerType),
                         validation)
  IN  validated(validateSearchInput(query, Default(maxResults, Num(5))))

\* factors in tenths
DEFAULT_PLATFORM_BOOST_CONFIG == [boostFactor |-> 15, penaltyFactor |-> 5, enabled |-> TRUE]

\* applyPlatformBoost that sorts the scores as they are
applyPlatformBoostUnboosted(results, detectedPlatform, config) ==
  sortByScoreDesc(results)

\* applyPlatformBoost; the product score * boost is rounded down to 1/Scale
applyPlatformBoost(results, detectedPlatform, config) ==
  LET merged == Assign(DEFAULT_PLATFORM_BOOST_CONFIG, config)
      isMobilePlatform == \/ includes(detectedPlatform, "mobile")
                          \/ detectedPlatform = "mobile-ios"
                          \/ detectedPlatform = "mobile-android"
                          \/ detectedPlatform = "mobile-generic"
      isWebPlatform == detectedPlatform = "web"
      isCrossPlatform == detectedPlatform = "cross-platform"
      boostFor(platformSupport) ==
        IF isWebPlatform
          THEN (IF platformSupport \in {"web", "both"} THEN merged.boostFactor
                ELSE IF platformSupport = "mobile" THEN merged.penaltyFactor
                ELSE 10)
        ELSE IF isMobilePlatform
          THEN (IF platformSupport \in {"mobile", "both"} THEN merged.boostFactor
                ELSE IF platformSupport = "web" THEN merged.penaltyFactor
                ELSE 10)
        ELSE IF isCrossPlatform
          THEN (IF platformSupport = "both" THEN merged.boostFactor
                ELSE IF platformSupport = "mobile" THEN 12
                ELSE 10)
        ELSE 10
      boost(result) ==
        LET declared == Field(result.data, "Platform_Support")
        IN  boostFor(trim(toLowerCase(IF declared # "" THEN declared ELSE "web")))
  IN  IF ~merged.enabled THEN results
      ELSE IF detectedPlatform = "" \/ Len(results) = 0 THEN results
      ELSE sortByScoreDesc([i \in 1..Len(results) |->
                              [results[i] EXCEPT
                                 !.score = (@ * boost(results[i])) \div 10]])

\* searchPatterns: landing layouts, UX guidelines and products merged; the
\* layout results are boosted by the platform the original query names
searchPatterns(query, type, maxResults) ==
  LET searchTypes == IF type # undefined THEN <<type.str>>
                     ELSE <<"layout", "ux", "product">>
      typeIndex(t) == CASE t = "layout" -> landingIndex
                        [] t = "ux" -> uxGuidelinesIndex
                        [] t = "product" -> productsIndex
      respond(results, each, validation) ==
        SearchResults(slice0(sortByScoreDesc(results), validation.maxResults),
                      searchesOf(each), validation)
      searchTypesFor(validation, platformResult) ==
        LET resultsPerType ==
              IF type # undefined THEN validation.maxResults
              ELSE Max(2, CeilDiv(validation.maxResults, Len(searchTypes)))
            boosted(t, kept) ==
              [i \in 1..Len(kept) |->
                 [data |-> kept[i].data, score |-> kept[i].score, _domain |-> t]]
            typeResults(t, found) ==
              IF t = "layout" /\ platformResult.confidence >= 500
                THEN boosted(t, slice0(applyPlatformBoost(toSearchResults(found),
                                                          platformResult.platform,
                                                          <<>>),
                                       resultsPerType))
                ELSE withDomain(t, slice0(found, resultsPerType))
            merged(each) ==
              respond(flatten([i \in 1..Len(each) |->
                                 typeResults(each[i].name, each[i].results)]),
                      each, validation)
        IN  merged(searchEach(searchTypes,
                              [i \in 1..Len(searchTypes) |-> typeIndex(searchTypes[i])],
                              validation.query, resultsPerType * 2))
      validated(validation) ==
        IF IsThrown(validation) THEN validation
        ELSE IF ~validation.valid THEN SearchError(validation.error, <<validation>>)
        ELSE IF type # undefined /\ type # Str("layout") /\ type # Str("ux")
                /\ type # Str("product")
          THEN SearchError("Invalid type: " \o String(type)
                             \o ". Must be 'layout', 'ux', or 'product'", <<validation>>)
        ELSE searchTypesFor(validation, detectPlatformIntent(validation.originalQuery))
  IN  validated(validateSearchInput(query, Default(maxResults, Num(5))))

\* domainToTypeMap[domain], "" for the undefined of an unknown domain
domainToTypeMap(domain) ==
  CASE domain = "color" -> "color"
    [] domain = "chart" -> "chart"
    [] domain = "landing" -> "landing"
    [] domain = "product" -> "product"
    [] domain = "prompt" -> "prompt"
    [] domain = "style" -> "style"
    [] domain = "ux" -> "ux-guideline"
    [] domain = "typography" -> "typography"
    [] domain = "icons" -> "icon"
    [] domain = "platform" -> "platform"
    [] OTHER -> ""

\* result.document.data?.type
resultType(result) == Field(result.document.data, "type")

\* slotsForDomain rounding down
slotsForDomainFloor(resultsPerDomain, confidence) ==
  (resultsPerDomain * confidence) \div 1000

\* Math.ceil(resultsPerDomain * confidence), confidence in thousandths; the
\* double product 25 * 0.56 is 14.000000000000002, which rounds up to 15
slotsForDomain(resultsPerDomain, confidence) ==
  IF resultsPerDomain = 25 /\ confidence = 560 THEN 15
  ELSE (resultsPerDomain * confidence + 999) \div 1000

\* prioritize that keeps the BM25 order
prioritizeByScore(results, targetType, domainSlots, maxResults) ==
  slice0(results, maxResults)

\* the split into results of the target type and the others, target first
prioritize(results, targetType, domainSlots, maxResults) ==
  LET domainResults == SelectSeq(results, LAMBDA r : resultType(r) = targetType)
      otherResults == SelectSeq(results, LAMBDA r : resultType(r) # targetType)
      otherSlots == maxResults - Min(domainSlots, Len(domainResults))
  IN  slice0(slice0(domainResults, domainSlots) \o slice0(otherResults, otherSlots),
             maxResults)

\* results.map(r => ({ data: { ...r.document.data, ...detectionMetadata }, score }))
withMetadata(found, detectionMetadata) ==
  [i \in 1..Len(found) |->
     [data |-> Assign(found[i].document.data, detectionMetadata),
      score |-> found[i].score]]

\* the results of each detected domain, then the others in the free slots
balance(results, multipleDomains, resultsPerDomain, maxResults) ==
  LET targetTypes == {domainToTypeMap(multipleDomains[i].domain) :
                        i \in 1..Len(multipleDomains)} \ {""}
      otherResults == SelectSeq(results, LAMBDA r :
                                  resultType(r) = "" \/ resultType(r) \notin targetTypes)
      perDomain == [i \in 1..Len(multipleDomains) |->
                      slice0(SelectSeq(results, LAMBDA r :
                                         /\ resultType(r) # ""
                                         /\ resultType(r) \in targetTypes
                                         /\ resultType(r) =
                                              domainToTypeMap(multipleDomains[i].domain)),
                             slotsForDomain(resultsPerDomain,
                                            multipleDomains[i].confidence))]
      balancedResults == flatten(perDomain)
      remainingSlots == maxResults - Len(balancedResults)
  IN  IF remainingSlots > 0
        THEN balancedResults \o slice0(otherResults, remainingSlots)
        ELSE balancedResults

\* searchAll: the unified index, re-ranked by the domains detected in the
\* validated (expanded) query
searchAll(query, maxResults) ==
  LET rank(validation, detectedDomains, detectedStacks) ==
        LET high == SelectSeq(detectedDomains, LAMBDA d : d.confidence >= 700)
            multipleDomains == SelectSeq(detectedDomains, LAMBDA d : d.confidence >= 500)
            searchLimit == IF Len(detectedDomains) > 0 THEN validation.maxResults * 3
                           ELSE validation.maxResults
            detectionMetadata ==
              Assign(IF Len(detectedDomains) > 0
                       THEN [_detectedDomains |-> detectedDomains] ELSE <<>>,
                     IF Len(detectedStacks) > 0
                       THEN [_detectedStacks |-> detectedStacks] ELSE <<>>)
            strategy ==
              IF Len(high) > 0 /\ domainToTypeMap(high[1].domain) # "" THEN 1
              ELSE IF Len(multipleDomains) > 1 THEN 2
              ELSE IF /\ Len(detectedDomains) = 1
                      /\ detectedDomains[1].confidence >= 300
                      /\ domainToTypeMap(detectedDomains[1].domain) # "" THEN 3
              ELSE 4
            final(results) ==
              CASE strategy = 1 ->
                     withMetadata(prioritize(results, domainToTypeMap(high[1].domain),
                                             CeilDiv(validation.maxResults * 8, 10),
                                             validation.maxResults),
                                  detectionMetadata)
                [] strategy = 2 ->
                     withMetadata(
                       slice0(sortByScoreDesc(
                                balance(results, multipleDomains,
                                        Max(2, validation.maxResults
                                                 \div Len(multipleDomains)),
                                        validation.maxResults)),
                              validation.maxResults),
                       detectionMetadata)
                [] strategy = 3 ->
                     withMetadata(
                       prioritize(results, domainToTypeMap(detectedDomains[1].domain),
                                  CeilDiv(validation.maxResults
                                            * (5000 + 3 * detectedDomains[1].confidence),
                                          10000),
                                  validation.maxResults),
                       detectionMetadata)
                [] strategy = 4 ->
                     toSearchResults(slice0(results, validation.maxResults))
            respond(s) ==
              SearchResults(final(s.results), s.searches, validation)
                @@ [strategy |-> strategy]
        IN  respond(searchIndex("unified", unifiedIndex, validation.query, searchLimit))
      validated(validation) ==
        IF IsThrown(validation) THEN validation
        ELSE IF ~validation.valid THEN SearchError(validation.error, <<validation>>)
        ELSE IF unifiedIndex = null
          THEN SearchError("Unified index not initialized", <<validation>>)
        ELSE rank(validation, detectDomains(validation.query),
                  detectStacks(validation.query))
  IN  validated(validateSearchInput(query, Default(maxResults, Num(10))))

\* searchStack that looks any name up without testing it
searchStackAnyName(stackName, query, maxResults) ==
  IF ToPrimitiveThrows(stackName) THEN TypeError
  ELSE searchSingleIndex("stack",
                         MapGet(stackIndexes, trim(toLowerCase(String(stackName)))),
                         "Stack", query, maxResults)

\* searchStack: the stack name is checked before the query
searchStack(stackName, query, maxResults) ==
  LET respond(s, validation) ==
        SearchResults(toSearchResults(s.results), s.searches, validation)
      validated(stackNameStr, validation) ==
        LET index == MapGet(stackIndexes, stackNameStr)
        IN  IF IsThrown(validation) THEN validation
            ELSE IF ~validation.valid
              THEN SearchError(validation.error, <<validation>>)
            ELSE IF index = null
              THEN SearchError("Stack index not initialized for: " \o stackNameStr,
                               <<validation>>)
            ELSE respond(searchIndex("stack-" \o stackNameStr, index, validation.query,
                                     validation.maxResults),
                         validation)
      named(stackNameStr) ==
        IF stackNameStr \notin Range(AVAILABLE_STACKS)
          THEN SearchError("Unknown stack: \"" \o stackNameStr
                             \o "\". Available stacks: " \o join(AVAILABLE_STACKS, ", "),
                           <<>>)
        ELSE validated(stackNameStr,
                       validateSearchInput(query, Default(maxResults, Num(3))))
  IN  IF stackName = undefined \/ stackName = null
        THEN SearchError("Stack name is required", <<>>)
      ELSE IF ToPrimitiveThrows(stackName) THEN TypeError
      ELSE named(trim(toLowerCase(String(stackName))))

\* searchPlatforms: one platform, or all of them merged
searchPlatforms(query, platformName, maxResults) ==
  LET names == [i \in 1..Len(platformIndexes) |-> platformIndexes[i].key]
      indexes == [i \in 1..Len(platformIndexes) |-> platformIndexes[i].value]
      platformResults(name, found) ==
        [i \in 1..Len(found) |->
           [data |-> Assign(found[i].document.data, [_platform |-> name]),
            score |-> found[i].score]]
      respond(s, validation) ==
        SearchResults(toSearchResults(s.results), s.searches, validation)
      merged(each) ==
        flatten([i \in 1..Len(each) |-> platformResults(each[i].name, each[i].results)])
      respondMerged(each, validation) ==
        SearchResults(slice0(sortByScoreDesc(merged(each)), validation.maxResults),
                      searchesOf(each), validation)
      named(platformNameStr, validation) ==
        LET index == MapGet(platformIndexes, platformNameStr)
        IN  IF platformNameStr \notin Range(AVAILABLE_PLATFORMS)
              THEN SearchError("Unknown platform: \"" \o platformNameStr
                                 \o "\". Available platforms: "
                                 \o join(AVAILABLE_PLATFORMS, ", "), <<validation>>)
            ELSE IF index = null
              THEN SearchError("Platform index not initialized for: "
                                 \o platformNameStr, <<validation>>)
            ELSE respond(searchIndex("platform-" \o platformNameStr, index,
                                     validation.query, validation.maxResults),
                         validation)
      validated(validation) ==
        \* with no platform index the divisor is 0 and the loop body never runs
        LET resultsPerPlatform ==
              IF Len(platformIndexes) = 0 THEN 0
              ELSE Max(2, CeilDiv(validation.maxResults, Len(platformIndexes)))
        IN  IF IsThrown(validation) THEN validation
            ELSE IF ~validation.valid
              THEN SearchError(validation.error, <<validation>>)
            ELSE IF platformName # undefined /\ platformName # null
              THEN IF ToPrimitiveThrows(platformName) THEN TypeError
                   ELSE named(trim(toLowerCase(String(platformName))), validation)
            ELSE respondMerged(searchEach(names, indexes, validation.query,
                                          resultsPerPlatform),
                               validation)
  IN  validated(validateSearchInput(query, Default(maxResults, Num(5))))

----------------------------------------------------------------------------
(* getDesignSystem (tools/handlers.ts)                                     *)

\* the truthiness of a value: what `value ? a : b` and Boolean(value) test
Truthy(x) ==
  IF x = null THEN FALSE
  ELSE CASE x.t = "undefined" -> FALSE
         [] x.t = "string" -> x.str # ""
         [] x.t = "number" -> x.num # 0
         [] x.t = "boolean" -> x.bool
         [] x.t = "object" -> TRUE

validPlatforms ==
  <<"web", "mobile-ios", "mobile-android", "mobile", "react-native", "flutter",
    "swiftui", "expo">>

validFormats == <<"ai-optimized", "minimal", "full", "structured">>

\* platformMap[platform] || 'web'
mapPlatformParameter(platform) ==
  CASE platform = "web" -> "web"
    [] platform = "mobile-ios" -> "mobile-ios"
    [] platform = "mobile-android" -> "mobile-android"
    [] platform = "mobile" -> "mobile-generic"
    [] platform = "react-native" -> "cross-platform"
    [] platform = "flutter" -> "cross-platform"
    [] platform = "swiftui" -> "mobile-ios"
    [] platform = "expo" -> "cross-platform"
    [] OTHER -> "web"

\* frameworkMap[platform], "" for undefined
mapPlatformToFramework(platform) ==
  CASE platform = "react-native" -> "react-native"
    [] platform = "flutter" -> "flutter"
    [] platform = "swiftui" -> "swiftui"
    [] platform = "expo" -> "react-native"
    [] OTHER -> ""

\* platformStr && ['flutter', 'react-native', 'expo'].includes(platformStr)
isCrossPlatformFramework(platformStr) ==
  platformStr \in {"flutter", "react-native", "expo"}

\* resolvedPlatform with the parameter always mapped
resolvedPlatformMapped(platformStr, autoDetectedPlatform) ==
  IF platformStr # "" THEN mapPlatformParameter(platformStr)
  ELSE autoDetectedPlatform.platform

\* resolvedPlatform: the keyword detection for a cross-platform framework or
\* no parameter ("" is undefined), the mapped parameter otherwise
resolvedPlatform(platformStr, autoDetectedPlatform) ==
  IF isCrossPlatformFramework(platformStr) THEN autoDetectedPlatform.platform
  ELSE IF platformStr # "" THEN mapPlatformParameter(platformStr)
  ELSE autoDetectedPlatform.platform

\* getPlatformSpecificOutput(platform, null, null)
getPlatformSpecificOutput(platform) ==
  [safe_area_insets |-> IF platform # "web"
                          THEN "env(safe-area-inset-top), env(safe-area-inset-bottom)"
                          ELSE null,
   navigation_type |-> IF platform # "web" THEN "stack" ELSE "page-based",
   primary_navigation |-> IF platform = "mobile-ios" THEN "tab-bar"
                          ELSE IF platform = "mobile-android" THEN "bottom-navigation"
                          ELSE "navbar",
   touch_target_min |-> IF platform # "web" THEN "44px" ELSE null]

\* hasConflictingIntents: a landing keyword and a dashboard keyword both
\* occur in the query
hasConflictingIntents(query) ==
  LET occurs(normalizedQuery, intent) ==
        \E i \in 1..Len(pageIntentEntries) :
          /\ pageIntentEntries[i].intent = intent
          /\ includes(normalizedQuery, pageIntentEntries[i].keyword)
      both(normalizedQuery) ==
        occurs(normalizedQuery, "landing") /\ occurs(normalizedQuery, "dashboard")
  IN  both(toLowerCase(query))

\* the words /\b(dashboard|analytics|kpi|admin|panel|metrics|widget|charts)\b/gi removes
DashboardTerms ==
  {"dashboard", "analytics", "kpi", "admin", "panel", "metrics", "widget", "charts"}

\* piece.replace(/\b(dashboard|...)\b/gi, '') for a piece without white space:
\* every maximal run of word characters that is one of the terms goes
removeDashboardTerms(piece) ==
  LET runStart(p) == CHOOSE i \in 1..p :
                       /\ \A j \in i..p : IsWordChar(CharAt(piece, j))
                       /\ (i = 1 \/ ~IsWordChar(CharAt(piece, i - 1)))
      runEnd(p) == CHOOSE i \in p..Len(piece) :
                     /\ \A j \in p..i : IsWordChar(CharAt(piece, j))
                     /\ (i = Len(piece) \/ ~IsWordChar(CharAt(piece, i + 1)))
      removed(p) ==
        /\ IsWordChar(CharAt(piece, p))
        /\ toLowerCase(SubSeq(piece, runStart(p), runEnd(p))) \in DashboardTerms
      kept == [p \in 1..Len(piece) |-> IF removed(p) THEN "" ELSE CharAt(piece, p)]
  IN  join(kept, "")

\* the query the landing index is searched with: for the landing intent the
\* dashboard terms are removed, white space is collapsed, and a query left
\* with few words gets landing terms
landingSearchQuery(baseQuery, intent) ==
  LET withTerms(stripped, words) ==
        IF Len(words) < 3 /\ ~includes(toLowerCase(stripped), "landing")
          THEN stripped \o " landing hero features"
        ELSE IF Len(words) < 2 THEN "landing page hero features cta"
        ELSE stripped
      collapsed(pieces) ==
        LET words == SelectSeq([i \in 1..Len(pieces) |-> removeDashboardTerms(pieces[i])],
                               LAMBDA w : Len(w) > 0)
        IN  withTerms(join(words, " "), words)
  IN  IF intent = "landing" THEN collapsed(splitWhitespace(baseQuery)) ELSE baseQuery

\* index.search(query, maxResults) for each request, nothing for an index
\* that is not loaded
searchLoaded(requests) ==
  [i \in 1..Len(requests) |->
     IF requests[i].index = null THEN <<>>
     ELSE search(requests[i].index, requests[i].query, requests[i].maxResults)]

\* results[0].document.data, null if nothing is found
firstData(found) == IF Len(found) > 0 THEN found[1].document.data ELSE null

\* a || b on strings
Or(value, fallback) == IF value # "" THEN value ELSE fallback

\* the landing layout taken from the best BM25 result, without the boost
landingLayoutUnboosted(landingResults, platform) ==
  IF Len(landingResults) > 0
    THEN [pattern |-> Field(landingResults[1].document.data, "Pattern Name"),
          section_order |-> Field(landingResults[1].document.data, "Section Order"),
          source |-> "landing"]
    ELSE null

\* the landing layout: the first of the results re-ranked by applyPlatformBoost
landingLayout(landingResults, platform) ==
  LET first(boostedLandingResults) ==
        IF Len(boostedLandingResults) > 0
          THEN [pattern |-> Field(boostedLandingResults[1].data, "Pattern Name"),
                section_order |-> Field(boostedLandingResults[1].data, "Section Order"),
                source |-> "landing"]
          ELSE null
  IN  first(applyPlatformBoost(toSearchResults(landingResults), platform, <<>>))

\* the dashboard layout from the products index
dashboardLayout(dashData) ==
  IF dashData = null THEN null
  ELSE [pattern |-> Or(Field(dashData, "Dashboard Style"),
                       Or(Field(dashData, "Pattern Name"), "Dashboard")),
        section_order |-> Or(Field(dashData, "Key Components"),
                             Field(dashData, "Section Order")),
        source |-> "dashboard"]

\* platform_guidelines: the patterns searchPlatforms finds for a mobile platform
platformGuidelinesFor(platform, baseQuery) ==
  LET name == CASE platform = "mobile-ios" -> "ios"
                [] platform = "mobile-android" -> "android"
                [] OTHER -> ""
      patterns(platformResults) ==
        IF platformResults.kind = "results" /\ Len(platformResults.results) > 0
          THEN [platform |-> name,
                patterns |-> [i \in 1..Len(platformResults.results) |->
                                [category |-> Field(platformResults.results[i].data, "Category"),
                                 pattern |-> Field(platformResults.results[i].data, "Pattern")]]]
          ELSE null
  IN  IF name # "" /\ MapGet(platformIndexes, name) # null
        THEN patterns(searchPlatforms(Str(baseQuery), Str(name), Num(5)))
        ELSE null

\* the output_format filter; the guide, the checklist, the required elements
\* and the hover CSS are fixed templates, kept as their names
formatOutput(fullResult, format, includeHover) ==
  CASE format = "ai-optimized" ->
         Assign([_meta |-> fullResult._meta, markdown_guide |-> fullResult.markdown_guide,
                 colors |-> fullResult.colors,
                 implementation_checklist |-> null, required_elements |-> null,
                 product |-> null, style |-> null, typography |-> null, layout |-> null,
                 platform_guidelines |-> fullResult.platform_guidelines],
                IF includeHover /\ fullResult.hover_effects # ""
                  THEN [hover_effects |-> fullResult.hover_effects]
                ELSE <<>>)
    [] format = "minimal" ->
         [_meta |-> fullResult._meta, markdown_guide |-> fullResult.markdown_guide,
          colors |-> fullResult.colors,
          implementation_checklist |-> fullResult.implementation_checklist,
          required_elements |-> fullResult.required_elements,
          product |-> null, style |-> null, typography |-> null, layout |-> null,
          platform_guidelines |-> fullResult.platform_guidelines]
    [] format = "structured" -> [fullResult EXCEPT !.markdown_guide = ""]
    [] OTHER -> fullResult

\* What getDesignSystem did: the design system it returned, the full result
\* it was cut from, and the ValidationResult
DesignSystem(output, fullResult, validation) ==
  [kind |-> "designSystem", output |-> output, fullResult |-> fullResult,
   searches |-> <<>>, validated |-> <<validation>>]

\* the string parameters of getDesignSystem, lower-cased or trimmed ("" for
\* undefined), or the error of the first one that is not accepted
designParameters(validation, style, mode, platform, outputFormat) ==
  LET \* value ? String(value) : undefined
      text(value) == IF Truthy(value) THEN String(value) ELSE ""
      throws(value) == Truthy(value) /\ ToPrimitiveThrows(value)
      modeStr == toLowerCase(text(mode))
      platformStr == toLowerCase(text(platform))
      formatStr == toLowerCase(text(outputFormat))
  IN  IF throws(mode) THEN TypeError
      ELSE IF modeStr # "" /\ modeStr # "light" /\ modeStr # "dark"
        THEN SearchError("mode must be either \"light\" or \"dark\"", <<validation>>)
      ELSE IF throws(style) \/ throws(platform) THEN TypeError
      ELSE IF platformStr # "" /\ platformStr \notin Range(validPlatforms)
        THEN SearchError("platform must be one of: " \o join(validPlatforms, ", "),
                         <<validation>>)
      ELSE IF throws(outputFormat) THEN TypeError
      ELSE IF formatStr # "" /\ formatStr \notin Range(validFormats)
        THEN SearchError("output_format must be one of: " \o join(validFormats, ", "),
                         <<validation>>)
      ELSE [kind |-> "parameters", modeStr |-> modeStr, styleStr |-> trim(text(style)),
            platformStr |-> platformStr, formatStr |-> formatStr]

\* _meta of the design system
designMeta(validation, parameters, intentResult, autoDetectedPlatform, resolved) ==
  [query_interpretation |->
     validation.originalQuery
       \o (IF parameters.styleStr # "" THEN " with " \o parameters.styleStr ELSE "")
       \o (IF parameters.modeStr # "" THEN " (" \o parameters.modeStr \o " mode)" ELSE "")
       \o (IF parameters.platformStr # ""
             THEN " [platform: " \o parameters.platformStr \o "]"
             ELSE ""),
   detected_intent |-> intentResult.intent,
   intent_confidence |-> intentResult.confidence,
   matched_keyword |-> intentResult.matchedKeyword,
   keyword_position |-> intentResult.position,
   detected_platform |-> resolved,
   platform_confidence |->
     IF isCrossPlatformFramework(parameters.platformStr)
       THEN autoDetectedPlatform.confidence
     ELSE IF parameters.platformStr # "" THEN 1000
     ELSE autoDetectedPlatform.confidence,
   platform_keywords |->
     autoDetectedPlatform.matched_keywords
       \o (IF parameters.platformStr # ""
              /\ parameters.platformStr \notin Range(autoDetectedPlatform.matched_keywords)
             THEN <<parameters.platformStr>> ELSE <<>>),
   detected_framework |->
     IF parameters.platformStr # ""
       THEN Or(mapPlatformToFramework(parameters.platformStr),
               autoDetectedPlatform.framework)
       ELSE autoDetectedPlatform.framework,
   specified_platform |-> parameters.platformStr,
   resolved_platform |-> resolved,
   platform_output |-> getPlatformSpecificOutput(resolved),
   warnings |->
     intentResult.warnings
       \o (IF hasConflictingIntents(validation.query)
             THEN <<"Query mentions both landing and dashboard - using first detected intent">>
             ELSE <<>>)]

\* styleResult, colorsResult and typographyResult from the rows found: the
\* columns the data has; the palette is that of a row without dark-mode
\* colours, and the CSS derived from it is left out
designStyle(styleData) ==
  IF styleData = null THEN null
  ELSE [name |-> Or(Field(styleData, "Style Category"),
                    Or(Field(styleData, "Type"), "Unknown")),
        effects |-> Field(styleData, "Effects & Animation")]

designColors(colorData) ==
  IF colorData = null THEN null
  ELSE [palette |-> [primary |-> Field(colorData, "Primary (Hex)"),
                     secondary |-> Field(colorData, "Secondary (Hex)"),
                     cta |-> Field(colorData, "CTA (Hex)"),
                     background |-> Field(colorData, "Background (Hex)"),
                     text |-> Field(colorData, "Text (Hex)")]]

designTypography(typoData) ==
  IF typoData = null THEN null
  ELSE [heading |-> Field(typoData, "Heading Font"),
        body |-> Field(typoData, "Body Font")]

\* layoutResult: the dashboard layout for the dashboard intent, the landing
\* layout otherwise or when no dashboard is found
designLayout(intent, resolved, dashResults, landingResults) ==
  IF intent = "dashboard" /\ dashResults # <<>>
    THEN dashboardLayout(firstData(dashResults))
    ELSE landingLayout(landingResults, resolved)

\* the searches of getDesignSystem after the product search: styles, colors,
\* typography, the dashboard products and the landing patterns
designSearches(validation, parameters, intent, productResult) ==
  LET baseQuery == validation.query
      inferredStyle ==
        IF parameters.styleStr # "" THEN parameters.styleStr
        ELSE IF productResult # null
          THEN Field(productResult, "Primary Style Recommendation")
        ELSE ""
  IN  searchLoaded(
        <<[index |-> stylesIndex,
           query |-> Or(inferredStyle,
                        IF parameters.styleStr # ""
                          THEN baseQuery \o " " \o parameters.styleStr
                          ELSE baseQuery),
           maxResults |-> validation.maxResults],
          [index |-> colorsIndex,
           query |-> IF parameters.modeStr # ""
                       THEN baseQuery \o " " \o parameters.modeStr \o " mode"
                       ELSE baseQuery,
           maxResults |-> validation.maxResults],
          [index |-> typographyIndex,
           query |-> IF inferredStyle # "" THEN baseQuery \o " " \o inferredStyle
                     ELSE baseQuery,
           maxResults |-> validation.maxResults],
          [index |-> productsIndex, query |-> baseQuery \o " dashboard",
           maxResults |-> validation.maxResults],
          [index |-> landingIndex, query |-> landingSearchQuery(baseQuery, intent),
           maxResults |-> validation.maxResults * 2]>>)

\* fullResult; the guide, the checklist, the required elements and the hover
\* CSS are fixed templates, kept as their names
designFullResult(meta, productResult, found, platformGuidelines) ==
  [_meta |-> meta,
   markdown_guide |-> "markdownGuide",
   implementation_checklist |-> "checklist",
   required_elements |-> "requiredElements",
   product |-> productResult,
   style |-> designStyle(firstData(found[1])),
   colors |-> designColors(firstData(found[2])),
   typography |-> designTypography(firstData(found[3])),
   layout |-> designLayout(meta.detected_intent, meta.resolved_platform,
                           found[4], found[5]),
   hover_effects |-> "hoverEffectsCSS",
   platform_guidelines |-> platformGuidelines]

getDesignSystem(query, style, mode, maxResults, platform, outputFormat, includeHoverEffects) ==
  LET format(parameters) == Or(parameters.formatStr, "ai-optimized")
      includeHover(parameters) ==
        IF includeHoverEffects # undefined THEN Truthy(includeHoverEffects)
        ELSE format(parameters) # "ai-optimized"
      respond(validation, parameters, fullResult) ==
        DesignSystem(formatOutput(fullResult, format(parameters), includeHover(parameters)),
                     fullResult, validation)
      composed(validation, parameters, meta, productResult) ==
        respond(validation, parameters,
                designFullResult(meta, productResult,
                                 designSearches(validation, parameters,
                                                meta.detected_intent, productResult),
                                 platformGuidelinesFor(meta.resolved_platform,
                                                       validation.query)))
      resolved(validation, parameters, intentResult, autoDetectedPlatform) ==
        composed(validation, parameters,
                 designMeta(validation, parameters, intentResult, autoDetectedPlatform,
                            resolvedPlatform(parameters.platformStr, autoDetectedPlatform)),
                 firstData(searchLoaded(<<[index |-> productsIndex,
                                           query |-> validation.query,
                                           maxResults |-> validation.maxResults]>>)[1]))
      accepted(validation, parameters) ==
        IF parameters.kind # "parameters" THEN parameters
        ELSE resolved(validation, parameters,
                      classifyPageIntent(validation.originalQuery),
                      detectPlatformIntent(validation.originalQuery))
      validated(validation) ==
        IF IsThrown(validation) THEN validation
        ELSE IF ~validation.valid THEN SearchError(validation.error, <<validation>>)
        ELSE accepted(validation,
                      designParameters(validation, style, mode, platform, outputFormat))
  IN  validated(validateSearchInput(query, Default(maxResults, Num(1))))

getDataStats ==
  [styles |-> Len(stylesData), colors |-> Len(colorsData),
   typography |-> Len(typographyData), charts |-> Len(chartsData),
   uxGuidelines |-> Len(uxGuidelinesData), icons |-> Len(iconsData),
   landing |-> Len(landingData), products |-> Len(productsData),
   prompts |-> Len(promptsData),
   stacks |-> [i \in 1..Len(stacksData) |->
                 [key |-> stacksData[i].key, value |-> Len(stacksData[i].value)]],
   platforms |-> [i \in 1..Len(platformsData) |->
                    [key |-> platformsData[i].key, value |-> Len(platformsData[i].value)]],
   total |-> Len(allDocuments)]

isInitialized == unifiedIndex # null

----------------------------------------------------------------------------
(* The handlers module as a state machine                                  *)

\* stdio mode: no HTTP server, no session table
NoHttpServer == sessions = <<>> /\ connecting = 0

\* the module-level variables as the module is loaded
HandlersInit ==
  /\ stylesIndex = null /\ colorsIndex = null /\ typographyIndex = null
  /\ chartsIndex = null /\ uxGuidelinesIndex = null /\ iconsIndex = null
  /\ landingIndex = null /\ productsIndex = null /\ promptsIndex = null
  /\ stackIndexes = <<>> /\ platformIndexes = <<>>
  /\ allDocuments = <<>> /\ unifiedIndex = null
  /\ stylesData = <<>> /\ colorsData = <<>> /\ typographyData = <<>>
  /\ chartsData = <<>> /\ uxGuidelinesData = <<>> /\ iconsData = <<>>
  /\ landingData = <<>> /\ productsData = <<>> /\ promptsData = <<>>
  /\ stacksData = <<>> /\ platformsData = <<>>

\* initializeIndexes over the files the data directory holds at that moment
initializeIndexes(files) ==
  LET styleDocs == mapDocuments(loadStyles(files), "style", [type |-> "style"])
      colorDocs == mapDocuments(loadColors(files), "color", [type |-> "color"])
      typographyDocs == mapDocuments(loadTypography(files), "typography",
                                     [type |-> "typography"])
      chartDocs == mapDocuments(loadCharts(files), "chart", [type |-> "chart"])
      uxDocs == mapDocuments(loadUXGuidelines(files), "ux", [type |-> "ux-guideline"])
      iconDocs == mapDocuments(loadIcons(files), "icon", [type |-> "icon"])
      landingDocs == mapDocuments(loadLanding(files), "landing", [type |-> "landing"])
      productDocs == mapDocuments(loadProducts(files), "product", [type |-> "product"])
      promptDocs == mapDocuments(loadPrompts(files), "prompt", [type |-> "prompt"])
      stackDocs == stackDocuments(loadAllStacks(files))
      platformDocs == platformDocuments(loadAllPlatforms(files))
      allStackDocs == flatten([i \in 1..Len(stackDocs) |-> stackDocs[i].value])
      allPlatformDocs == flatten([i \in 1..Len(platformDocs) |-> platformDocs[i].value])
      all == styleDocs \o colorDocs \o typographyDocs \o chartDocs \o uxDocs
               \o iconDocs \o landingDocs \o productDocs \o promptDocs
               \o allStackDocs \o allPlatformDocs
  IN  /\ stylesData' = loadStyles(files)
      /\ colorsData' = loadColors(files)
      /\ typographyData' = loadTypography(files)
      /\ chartsData' = loadCharts(files)
      /\ uxGuidelinesData' = loadUXGuidelines(files)
      /\ iconsData' = loadIcons(files)
      /\ landingData' = loadLanding(files)
      /\ productsData' = loadProducts(files)
      /\ promptsData' = loadPrompts(files)
      /\ stacksData' = loadAllStacks(files)
      /\ platformsData' = loadAllPlatforms(files)
      /\ stackIndexes' = indexEach(stackDocs)
      /\ platformIndexes' = indexEach(platformDocs)
      /\ stylesIndex' = indexIfAny(styleDocs, stylesIndex)
      /\ colorsIndex' = indexIfAny(colorDocs, colorsIndex)
      /\ typographyIndex' = indexIfAny(typographyDocs, typographyIndex)
      /\ chartsIndex' = indexIfAny(chartDocs, chartsIndex)
      /\ uxGuidelinesIndex' = indexIfAny(uxDocs, uxGuidelinesIndex)
      /\ iconsIndex' = indexIfAny(iconDocs, iconsIndex)
      /\ landingIndex' = indexIfAny(landingDocs, landingIndex)
      /\ productsIndex' = indexIfAny(productDocs, productsIndex)
      /\ promptsIndex' = indexIfAny(promptDocs, promptsIndex)
      /\ allDocuments' = all
      /\ unifiedIndex' = indexIfAny(all, unifiedIndex)

----------------------------------------------------------------------------
NoCall == [fn |-> "none"]
NoRet == [kind |-> "none"]

MaxTextLen == 5
TextAlphabet == {"a", "B", "_", " ", "-", "\t"}

RECURSIVE StringsUpTo(_, _)
StringsUpTo(alphabet, n) ==
  IF n = 0 THEN {""}
  ELSE LET P == StringsUpTo(alphabet, n - 1)
       IN  P \cup {s \o c : s \in P, c \in alphabet}

InitTokenize ==
  /\ HandlersInit
  /\ NoHttpServer
  /\ bm25 = null
  /\ call \in {[fn |-> "input", text |-> x] : x \in StringsUpTo(TextAlphabet, MaxTextLen)}
  /\ ret = NoRet

Tokenize ==
  /\ call.fn = "input"
  /\ call' = [fn |-> "tokenize", text |-> call.text]
  /\ ret' = [kind |-> "tokens", tokens |-> tokenize(call.text)]
  /\ UNCHANGED <<bm25, handlerVars, httpVars>>

Retokenize ==
  /\ call.fn = "tokenize"
  /\ call' = [fn |-> "retokenize", text |-> join(ret.tokens, " "),
                input |-> call.text, first |-> ret.tokens]
  /\ ret' = [kind |-> "tokens", tokens |-> tokenize(join(ret.tokens, " "))]
  /\ UNCHANGED <<bm25, handlerVars, httpVars>>

NextTokenize == Tokenize \/ Retokenize

SpecTokenize == InitTokenize /\ [][NextTokenize]_vars

\* C9: tokenization is idempotent: tokenizing the space-joined output of
\* tokenize(x) gives exactly tokenize(x), for every input string x.
TokenizeIdempotent ==
  call.fn = "retokenize" => ret.tokens = call.first

\* an input with upper case, punctuation and an underscore
\* was tokenized to two tokens and tokenized again
TokenizeIdempotentWitness ==
  /\ call.fn = "retokenize"
  /\ call.input = "aB-a_"
  /\ call.first = <<"ab", "a_">>
  /\ call.text = "ab a_"
  /\ ret.tokens = <<"ab", "a_">>

----------------------------------------------------------------------------
(* The BM25 class on its own: construction over a collection, search       *)

MaxDocs == 3
BM25Texts == {"", "x", "dark mode", "Dark dark card",
              "glassmorphism dark-mode card", "mode"}
BM25Queries == {"", "   ", "x", "dark", "mode", "dark card",
                "glassmorphism dark mode", "zebra!"}
\* maxResults values a validated caller passes, 1..50
BM25MaxResults == {1, 2, 3, 50}

RECURSIVE SeqsUpTo(_, _)
SeqsUpTo(S, n) ==
  IF n = 0 THEN {<<>>}
  ELSE LET P == SeqsUpTo(S, n - 1)
       IN  P \cup {Append(q, x) : q \in P, x \in S}

\* the documents of a test collection: ids by position
TestDocuments(contents) ==
  [i \in 1..Len(contents) |->
     [id |-> "doc-" \o ToString(i - 1), content |-> contents[i],
      data |-> [type |-> "doc"]]]

InitBM25 ==
  /\ HandlersInit
  /\ NoHttpServer
  /\ bm25 = BM25(<<>>)
  /\ call = [fn |-> "construct", added |-> 0]
  /\ ret = NoRet

\* new BM25(documents) over the current collection extended by more documents
BM25Construct(extra) ==
  /\ call.fn \in {"construct", "none"}
  /\ Len(extra) > 0
  /\ Len(bm25.documents) + Len(extra) <= MaxDocs
  /\ bm25' = BM25(TestDocuments([i \in 1..Len(bm25.documents) |->
                                   bm25.documents[i].content] \o extra))
  /\ call' = [fn |-> "construct", added |-> Len(extra)]
  /\ ret' = NoRet
  /\ UNCHANGED <<handlerVars, httpVars>>

\* bm25.search(query, maxResults)
BM25Search(query, maxResults) ==
  /\ call.fn \in {"construct", "none"}
  /\ call' = [fn |-> "search", query |-> query, maxResults |-> maxResults]
  /\ ret' = [kind |-> "results",
             results |-> search(bm25, query, maxResults),
             scored |-> scoreAll(bm25, query),
             divisors |-> UNION {scoreDivisors(bm25, tokenize(query), i) :
                                   i \in 1..Len(bm25.documents)}]
  /\ UNCHANGED <<bm25, handlerVars, httpVars>>

\* the caller takes the returned value
BM25Return ==
  /\ call.fn = "search"
  /\ call' = NoCall
  /\ ret' = NoRet
  /\ UNCHANGED <<bm25, handlerVars, httpVars>>

NextBM25 ==
  \/ \E extra \in SeqsUpTo(BM25Texts, MaxDocs) : BM25Construct(extra)
  \/ \E query \in BM25Queries, maxResults \in BM25MaxResults : BM25Search(query, maxResults)
  \/ BM25Return

SpecBM25 == InitBM25 /\ [][NextBM25]_vars

\* the position in the index of the document of a search result
DocIndexOf(index, r) ==
  CHOOSE i \in 1..Len(index.documents) : index.documents[i].id = r.document.id

\* document i is ranked before document j: higher score, or equal score and
\* earlier in the collection
RankedBefore(scored, i, j) ==
  \/ scored[i].score > scored[j].score
  \/ scored[i].score = scored[j].score /\ i < j

\* C3: BM25.search returns exactly the documents with score > 0, by score
\* descending, ties in original order, cut to the first maxResults entries.
SearchContract ==
  call.fn = "search" =>
    LET R == ret.results
        scored == ret.scored
        P == {i \in 1..Len(scored) : scored[i].score > 0}
        pos == [k \in 1..Len(R) |-> DocIndexOf(bm25, R[k])]
    IN  /\ Len(R) = Min(call.maxResults, Cardinality(P))
        /\ \A k \in 1..Len(R) :
             /\ pos[k] \in P
             /\ R[k] = scored[pos[k]]
        /\ \A k, l \in 1..Len(R) : k < l => RankedBefore(scored, pos[k], pos[l])
        /\ \A i \in P \ Range(pos) : \A k \in 1..Len(R) : RankedBefore(scored, pos[k], i)

\* a search over three documents, two of equal positive score kept in
\* collection order and the third cut off by maxResults
SearchContractWitness ==
  /\ call.fn = "search"
  /\ call.maxResults = 2
  /\ Len(ret.scored) = 3
  /\ \A i \in 1..3 : ret.scored[i].score > 0
  /\ ret.scored[2].score = ret.scored[3].score
  /\ ret.scored[1].score < ret.scored[2].score
  /\ Len(ret.results) = 2
  /\ ret.results[1].document.id = "doc-1"
  /\ ret.results[2].document.id = "doc-2"

\* C4: a document is returned only if it holds a token of the query; a term
\* absent from a document adds 0, and a document holding a query term
\* scores > 0.
OnlyMatchingDocuments ==
  call.fn = "search" =>
    LET queryTerms == Range(tokenize(call.query))
        Shares(i) == Range(bm25.tokenizedDocs[i]) \cap queryTerms # {}
    IN  /\ \A k \in 1..Len(ret.results) : Shares(DocIndexOf(bm25, ret.results[k]))
        /\ \A i \in 1..Len(ret.scored) :
             /\ Shares(i) => ret.scored[i].score > 0
             /\ ~Shares(i) => ret.scored[i].score = 0

\* "glassmorphism dark mode" against a collection with the record
\* "glassmorphism dark-mode card" and a record without any query term: the
\* first is the top result, the second is not returned
OnlyMatchingDocumentsWitness ==
  /\ call.fn = "search"
  /\ call.query = "glassmorphism dark mode"
  /\ call.maxResults = 3
  /\ Len(bm25.documents) = 3
  /\ bm25.documents[1].content = "x"
  /\ bm25.documents[2].content = "Dark dark card"
  /\ bm25.documents[3].content = "glassmorphism dark-mode card"
  /\ Len(ret.results) = 2
  /\ ret.results[1].document.id = "doc-2"
  /\ ret.results[1].score > 0
  /\ ret.scored[1].score = 0

\* no two adjacent word characters: the text has no token longer than 1
HasNoTerm(text) ==
  ~ \E i \in 1..(Len(text) - 1) :
      IsWordChar(CharAt(text, i)) /\ IsWordChar(CharAt(text, i + 1))

\* C5: a search with an empty or whitespace-only query (one that tokenizes
\* to nothing) returns an empty result sequence, not an error, and no
\* division by zero is evaluated.
EmptyQueryEmptyResult ==
  (call.fn = "search" /\ HasNoTerm(call.query)) =>
    /\ ret.kind = "results"
    /\ ret.results = <<>>
    /\ 0 \notin ret.divisors

\* a whitespace-only query against three documents, one of them empty
EmptyQueryEmptyResultWitness ==
  /\ call.fn = "search"
  /\ call.query = "   "
  /\ Len(bm25.documents) = 3
  /\ bm25.documents[1].content = ""
  /\ bm25.documents[2].content = "dark mode"
  /\ ret.kind = "results"
  /\ ret.results = <<>>

\* C6: every BM25 score is >= 0: the idf of every term is positive (df never
\* exceeds the document count N) and so is every term-frequency factor.
ScoreNonNegative ==
  /\ ~bm25.isNull =>
       \A t \in DOMAIN bm25.docFrequencies :
         /\ bm25.docFrequencies[t] <= Len(bm25.documents)
         /\ idf(bm25, t) > 0
  /\ call.fn = "search" =>
       /\ \A i \in 1..Len(ret.scored) : ret.scored[i].score >= 0
       /\ \A d \in ret.divisors : d > 0
       /\ \A t \in Range(tokenize(call.query)) : idf(bm25, t) > 0

\* a term held by every document (df = N = 3) still scores positive
ScoreNonNegativeWitness ==
  /\ call.fn = "search"
  /\ call.query = "dark"
  /\ Len(bm25.documents) = 3
  /\ docFrequency(bm25, "dark") = 3
  /\ \A i \in 1..3 : ret.scored[i].score > 0

\* the document's terms are exactly the query's terms
SameTermSet(index, query) ==
  Range(index.tokenizedDocs[1]) = Range(tokenize(query))

\* C7 as stated: a single indexed document whose content equals the query
\* term set is returned with a strictly positive score.
SelfRelevance ==
  (call.fn = "search" /\ Len(bm25.documents) = 1 /\ SameTermSet(bm25, call.query)) =>
    /\ Len(ret.results) = 1
    /\ ret.results[1].document = bm25.documents[1]
    /\ ret.results[1].score > 0

\* C7 amended: a single indexed document whose content equals the query term
\* set is returned with a strictly positive score, provided that term set is
\* not empty (the query has a token of two or more word characters).
SelfRelevanceNonEmpty ==
  (/\ call.fn = "search"
   /\ Len(bm25.documents) = 1
   /\ SameTermSet(bm25, call.query)
   /\ ~HasNoTerm(call.query)) =>
    /\ Len(ret.results) = 1
    /\ ret.results[1].document = bm25.documents[1]
    /\ ret.results[1].score > 0

\* the single document "Dark dark card" searched with "dark card"
SelfRelevanceWitness ==
  /\ call.fn = "search"
  /\ call.query = "dark card"
  /\ Len(bm25.documents) = 1
  /\ bm25.documents[1].content = "Dark dark card"
  /\ Len(ret.results) = 1
  /\ ret.results[1].score > 0

\* C8: building the index over a collection extended with documents that
\* all contain a term does not increase that term's idf.
IdfMonotone ==
  [][call'.fn = "construct" =>
       \A t \in DOMAIN bm25'.docFrequencies :
         (\A i \in (Len(bm25.documents) + 1)..Len(bm25'.documents) :
            t \in Range(bm25'.tokenizedDocs[i]))
           => idf(bm25', t) <= idf(bm25, t)]_vars

\* two documents holding "dark" were added to a one-document collection
\* and the idf of "dark" went down
IdfMonotoneWitness ==
  /\ call.fn = "construct"
  /\ call.added = 2
  /\ Len(bm25.documents) = 3
  /\ bm25.documents[1].content = "mode"
  /\ \A i \in 2..3 : "dark" \in Range(bm25.tokenizedDocs[i])
  /\ idf(bm25, "dark") < idf(BM25(SubSeq(bm25.documents, 1, 1)), "dark")

----------------------------------------------------------------------------
(* The classifiers on their own                                            *)

MaxQueryWords == 3
ClassifyVocabulary ==
  {"landing", "page", "home page", "ios", "app", "React", "hooks", "dashboard"}

\* the texts of up to n words of a vocabulary, joined by single spaces
WordTexts(vocabulary, n) ==
  {join(ws, " ") : ws \in SeqsUpTo(vocabulary, n)}

\* queries that match several keywords of one category
ClassifyQueries ==
  {"hero cta section", "trend bar pie scatter funnel graph", "hex rgb trend",
   "landing page website web app", "Responsive web site in the browser"}

InitClassify ==
  /\ HandlersInit
  /\ NoHttpServer
  /\ bm25 = null
  /\ call \in {[fn |-> "input", query |-> q] :
                 q \in WordTexts(ClassifyVocabulary, MaxQueryWords) \cup ClassifyQueries}
  /\ ret = NoRet

DetectDomains ==
  /\ call.fn = "input"
  /\ call' = [fn |-> "detectDomains", query |-> call.query]
  /\ ret' = [kind |-> "matches", matches |-> detectDomains(call.query)]
  /\ UNCHANGED <<bm25, handlerVars, httpVars>>

DetectStacks ==
  /\ call.fn = "input"
  /\ call' = [fn |-> "detectStacks", query |-> call.query]
  /\ ret' = [kind |-> "matches", matches |-> detectStacks(call.query)]
  /\ UNCHANGED <<bm25, handlerVars, httpVars>>

DetectPlatformIntent ==
  /\ call.fn = "input"
  /\ call' = [fn |-> "detectPlatformIntent", query |-> call.query]
  /\ ret' = [kind |-> "intent", intent |-> detectPlatformIntent(call.query)]
  /\ UNCHANGED <<bm25, handlerVars, httpVars>>

ClassifyPageIntent ==
  /\ call.fn = "input"
  /\ call' = [fn |-> "classifyPageIntent", query |-> call.query]
  /\ ret' = [kind |-> "intent", intent |-> classifyPageIntent(call.query)]
  /\ UNCHANGED <<bm25, handlerVars, httpVars>>

NextClassify ==
  \/ DetectDomains
  \/ DetectStacks
  \/ DetectPlatformIntent
  \/ ClassifyPageIntent

SpecClassify == InitClassify /\ [][NextClassify]_vars

\* C10: every confidence produced by detectDomains, detectStacks,
\* detectPlatformIntent and classifyPageIntent lies in [0, 1]; the
\* multi-match boost never lifts a score above 1.0.
ConfidenceBound ==
  /\ ret.kind = "matches" =>
       \A i \in 1..Len(ret.matches) :
         ret.matches[i].confidence >= 0 /\ ret.matches[i].confidence <= 1000
  /\ ret.kind = "intent" =>
       ret.intent.confidence >= 0 /\ ret.intent.confidence <= 1000

\* "landing page" matches the domain keywords "landing page" (1.0) and
\* "landing" (0.75): the boosted score 1.03 is reported as 1.0
ConfidenceBoundWitness ==
  /\ call.fn = "detectDomains"
  /\ call.query = "landing page"
  /\ Len(ret.matches) = 1
  /\ ret.matches[1].domain = "landing"
  /\ ret.matches[1].confidence = 1000
  /\ Len(matchedEntries(toLowerCase(call.query), domainKeywordsWeighted[3].keywords)) = 2

\* C12: in classifyPageIntent a phrase match has priority over single
\* words: when the query contains an intent phrase, the result is the intent
\* of the phrase at the earliest position (of the heavier one on a tie),
\* whatever single-word keywords occur elsewhere; only when no phrase is
\* contained are the tokens scanned left to right for a single-word keyword;
\* "landing page dashboard" classifies as landing.
PhrasePriority ==
  call.fn = "classifyPageIntent" =>
    LET lowerQuery == trim(toLowerCase(call.query))
        entries == {pageIntentEntries[i] : i \in 1..Len(pageIntentEntries)}
        phrases == {e \in entries : includes(e.keyword, " ")
                                      /\ includes(lowerQuery, e.keyword)}
        words == {e \in entries : ~includes(e.keyword, " ")}
        tokens == splitWhitespace(lowerQuery)
        hits == {i \in 1..Len(tokens) : \E e \in words : e.keyword = tokens[i]}
        Earlier(e, f) ==
          \/ indexOf(lowerQuery, e.keyword) < indexOf(lowerQuery, f.keyword)
          \/ /\ indexOf(lowerQuery, e.keyword) = indexOf(lowerQuery, f.keyword)
             /\ e.weight >= f.weight
        result == ret.intent
    IN  /\ phrases # {} =>
             \E e \in phrases :
               /\ \A f \in phrases : Earlier(e, f)
               /\ result.intent = e.intent
               /\ result.hasKeyword /\ result.matchedKeyword = e.keyword
        /\ (phrases = {} /\ hits # {}) =>
             \E i \in hits :
               /\ \A j \in hits : i <= j
               /\ result.hasKeyword /\ result.matchedKeyword = tokens[i]
               /\ result.position = i - 1
               /\ \E e \in words : e.keyword = tokens[i] /\ result.intent = e.intent
        /\ (phrases = {} /\ hits = {}) =>
             result.intent = "unknown" /\ ~result.hasKeyword
        /\ call.query = "landing page dashboard" => result.intent = "landing"

\* "dashboard landing page": the single word "dashboard" of another intent
\* comes first and the phrase "landing page" after it decides
PhrasePriorityWitness ==
  /\ call.fn = "classifyPageIntent"
  /\ call.query = "dashboard landing page"
  /\ ret.intent.intent = "landing"
  /\ ret.intent.matchedKeyword = "landing page"
  /\ ret.intent.position = 1
  /\ ret.intent.confidence = 950

----------------------------------------------------------------------------
(* matchesKeyword on its own, next to the domain detection that uses it    *)

\* every keyword of the three weighted keyword tables
TableKeywords(table) ==
  UNION {{table[i].keywords[j].keyword : j \in 1..Len(table[i].keywords)} :
           i \in 1..Len(table)}

AllKeywords ==
  TableKeywords(domainKeywordsWeighted) \cup TableKeywords(stackKeywordsWeighted)
    \cup TableKeywords(PLATFORM_KEYWORDS)

KeywordQueries ==
  {"sidebar navigation", "bar chart comparison", "Bar Chart comparison",
   "side-bar", "bar_chart", "toolbar and bar", "recipe for a pie", "a#b #fff",
   "e-commerce checkout", "use @nuxt/ui", "kiosk apple", "ios app", ""}

InitKeyword ==
  /\ HandlersInit
  /\ NoHttpServer
  /\ bm25 = null
  /\ call \in {[fn |-> "input", query |-> q, keyword |-> k] :
                 q \in KeywordQueries, k \in AllKeywords}
  /\ ret = NoRet

MatchesKeyword ==
  /\ call.fn = "input"
  /\ call' = [fn |-> "matchesKeyword", query |-> call.query, keyword |-> call.keyword]
  /\ ret' = [kind |-> "matched", matched |-> matchesKeyword(call.query, call.keyword)]
  /\ UNCHANGED <<bm25, handlerVars, httpVars>>

NextKeyword ==
  \/ MatchesKeyword
  \/ DetectDomains

SpecKeyword == InitKeyword /\ [][NextKeyword]_vars

\* the keyword occurs in the query at position i, in any case, and is not
\* continued there: a keyword edge that is a word character has no word
\* character next to it (and an edge that is not has one)
WholeWordAt(query, keyword, i) ==
  LET j == i + Len(keyword)
      wordBefore == i > 1 /\ CharAt(query, i - 1) \in WordChars
      wordAfter == j <= Len(query) /\ CharAt(query, j) \in WordChars
  IN  /\ toLowerCase(SubSeq(query, i, j - 1)) = toLowerCase(keyword)
      /\ (CharAt(keyword, 1) \in WordChars) # wordBefore
      /\ (CharAt(keyword, Len(keyword)) \in WordChars) # wordAfter

OccursAsWholeWord(query, keyword) ==
  \E i \in 1..(Len(query) - Len(keyword) + 1) : WholeWordAt(query, keyword, i)

\* C11: a single-word keyword matches a query exactly where it occurs as a
\* whole word between word boundaries, never as a fragment of a longer
\* word; the chart domain is detected exactly when a chart phrase is
\* contained in the lowercased query or a chart word occurs in it as a whole
\* word, so "bar" inside "sidebar" does not detect chart and a query
\* containing "bar chart" does.
WholeWordMatch ==
  /\ (call.fn = "matchesKeyword" /\ ~includes(call.keyword, " ")) =>
       ret.matched = OccursAsWholeWord(call.query, call.keyword)
  /\ call.fn = "detectDomains" =>
       LET lowerQuery == toLowerCase(call.query)
           chart == TableKeywords(SelectSeq(domainKeywordsWeighted,
                                            LAMBDA t : t.category = "chart"))
           detected == \E i \in 1..Len(ret.matches) : ret.matches[i].domain = "chart"
       IN  /\ detected =
                \E k \in chart : IF includes(k, " ") THEN includes(lowerQuery, k)
                                 ELSE OccursAsWholeWord(lowerQuery, k)
           /\ includes(lowerQuery, "bar chart") => detected

\* "bar" is contained in "sidebar navigation" and does not match it
WholeWordMatchWitness ==
  /\ call.fn = "matchesKeyword"
  /\ call.query = "sidebar navigation"
  /\ call.keyword = "bar"
  /\ includes(call.query, call.keyword)
  /\ ret.matched = FALSE

----------------------------------------------------------------------------
(* applyPlatformBoost on its own                                           *)

MaxBoostResults == 3

\* Platform_Support as the data holds it: absent, or one of the three tags
\* in any case and with surrounding blanks
BoostTags == {"", "web", "Mobile ", "both"}

\* BM25 scores are positive; multiples of ten units keep the products exact
BoostScores == {Scale, 2 * Scale}

\* the platforms detectPlatformIntent reports
BoostPlatforms ==
  {PLATFORM_KEYWORDS[i].category : i \in 1..Len(PLATFORM_KEYWORDS)}

BoostResult(tag, resultScore) ==
  [data |-> IF tag = "" THEN [type |-> "landing"]
            ELSE [type |-> "landing", Platform_Support |-> tag],
   score |-> resultScore]

InitBoost ==
  /\ HandlersInit
  /\ NoHttpServer
  /\ bm25 = null
  /\ call \in {[fn |-> "input", results |-> rs, detectedPlatform |-> p] :
                 rs \in SeqsUpTo({BoostResult(t, x) : t \in BoostTags, x \in BoostScores},
                                 MaxBoostResults),
                 p \in BoostPlatforms}
  /\ ret = NoRet

ApplyPlatformBoost ==
  /\ call.fn = "input"
  /\ call' = [fn |-> "applyPlatformBoost", results |-> call.results,
              detectedPlatform |-> call.detectedPlatform]
  /\ ret' = [kind |-> "boosted",
             results |-> applyPlatformBoost(call.results, call.detectedPlatform, <<>>)]
  /\ UNCHANGED <<bm25, handlerVars, httpVars>>

NextBoost == ApplyPlatformBoost

SpecBoost == InitBoost /\ [][NextBoost]_vars

\* the tag of a result: Platform_Support in lower case without blanks, web
\* when the record has none
SupportTag(result) ==
  IF "Platform_Support" \in DOMAIN result.data
    THEN trim(toLowerCase(result.data["Platform_Support"])) ELSE "web"

\* the factor, in tenths, for a detected platform and a tag
BoostFactor(platform, tag) ==
  IF platform = "cross-platform"
    THEN CASE tag = "both" -> 15 [] tag = "mobile" -> 12 [] tag = "web" -> 10
  ELSE IF platform = "web"
    THEN (IF tag \in {"web", "both"} THEN 15 ELSE 5)
  ELSE (IF tag \in {"mobile", "both"} THEN 15 ELSE 5)

\* C13: applyPlatformBoost multiplies each score by 1.5 when the
\* Platform_Support tag (web by default) matches the detected platform, by
\* 0.5 when it does not, and under a cross-platform detection by 1.5 for
\* both, 1.2 for mobile and 1.0 for web, and returns the results sorted by
\* the adjusted score, descending; so under mobile-ios a result tagged both
\* or mobile stands before a web result of the same base score.
PlatformBoostOrder ==
  call.fn = "applyPlatformBoost" =>
    LET given == call.results
        out == ret.results
        adjusted == [i \in 1..Len(given) |->
                       [data |-> given[i].data,
                        score10 |-> given[i].score
                                      * BoostFactor(call.detectedPlatform,
                                                    SupportTag(given[i]))]]
        Count(seq, x) == Cardinality({i \in 1..Len(seq) : seq[i] = x})
        out10 == [i \in 1..Len(out) |->
                    [data |-> out[i].data, score10 |-> out[i].score * 10]]
    IN  /\ Len(out) = Len(given)
        /\ \A i \in 1..Len(given) : Count(out10, adjusted[i]) = Count(adjusted, adjusted[i])
        /\ \A i, j \in 1..Len(out) : i < j => out[i].score >= out[j].score
        /\ call.detectedPlatform = "mobile-ios" =>
             \A i, j \in 1..Len(out) :
               (/\ SupportTag(out[i]) = "web"
                /\ SupportTag(out[j]) \in {"both", "mobile"}
                /\ out[i].score * 3 = out[j].score) => j < i

\* under mobile-ios a web result listed first and a mobile result of the
\* same base score listed second are returned in the opposite order
PlatformBoostOrderWitness ==
  /\ call.fn = "applyPlatformBoost"
  /\ call.detectedPlatform = "mobile-ios"
  /\ call.results = <<BoostResult("web", Scale), BoostResult("Mobile ", Scale)>>
  /\ ret.results = <<BoostResult("Mobile ", (Scale * 3) \div 2),
                     BoostResult("web", Scale \div 2)>>

----------------------------------------------------------------------------
(* The handlers specification *)

\* Two states of the data directory.  FullData has every CSV file (one
\* stack file has no rows); PartialData lacks most of them.
FullData ==
  "styles.csv" :> <<
      ("Style Category" :> "Glassmorphism" @@ "Keywords" :> "glass blur dark mode"
         @@ "Best For" :> "dashboard"),
      ("Style Category" :> "Minimalism" @@ "Keywords" :> "clean font"
         @@ "Best For" :> "landing page"),
      ("Style Category" :> "Dark Mode" @@ "Type" :> "General"
         @@ "Keywords" :> "dark theme hex")>>
  @@ "colors.csv" :> <<
      ("Product Type" :> "SaaS" @@ "Keywords" :> "blue hex dark" @@ "Notes" :> ""),
      ("Product Type" :> "Fintech" @@ "Keywords" :> "dark mode green hex font")>>
  @@ "typography.csv" :> <<
      ("Font Pairing Name" :> "Modern Sans" @@ "Mood/Style Keywords" :> "clean font"),
      ("Font Pairing Name" :> "Dark Serif" @@ "Best For" :> "dark mode font hex")>>
  @@ "charts.csv" :> <<
      ("Data Type" :> "Trend" @@ "Keywords" :> "line chart dark mode"),
      ("Data Type" :> "Comparison" @@ "Best Chart Type" :> "bar chart font")>>
  @@ "ux-guidelines.csv" :> <<
      ("Category" :> "Navigation" @@ "Issue" :> "dark mode toggle" @@ "Platform" :> "Web"),
      ("Category" :> "Touch" @@ "Issue" :> "tap target font" @@ "Platform" :> "iOS app")>>
  @@ "icons.csv" :> <<
      ("Category" :> "Navigation" @@ "Icon Name" :> "menu" @@ "Keywords" :> "app font"),
      ("Category" :> "Theme" @@ "Icon Name" :> "moon" @@ "Keywords" :> "dark mode")>>
  @@ "landing.csv" :> <<
      ("Pattern Name" :> "Hero Centric" @@ "Keywords" :> "landing page dark hero"
         @@ "Platform_Support" :> "web"),
      ("Pattern Name" :> "App Showcase" @@ "Keywords" :> "ios app dark mode"
         @@ "Platform_Support" :> "Mobile"),
      ("Pattern Name" :> "Bento" @@ "Keywords" :> "app dashboard font"
         @@ "Platform_Support" :> "both"),
      ("Pattern Name" :> "Legacy" @@ "Keywords" :> "ios app page")>>
  @@ "products.csv" :> <<
      ("Product Type" :> "SaaS Dashboard" @@ "Keywords" :> "dashboard dark"),
      ("Product Type" :> "Mobile App" @@ "Keywords" :> "ios app font")>>
  @@ "prompts.csv" :> <<
      ("Style Category" :> "Dark Mode"
         @@ "AI Prompt Keywords (Copy-Paste Ready)" :> "dark mode ui"),
      ("Style Category" :> "Editorial" @@ "CSS/Technical Keywords" :> "hex font")>>
  @@ "stacks/react.csv" :> <<
      ("Category" :> "Hooks" @@ "Guideline" :> "useEffect cleanup"
         @@ "Description" :> "dark mode hooks"),
      ("Category" :> "Assets" @@ "Guideline" :> "font loading")>>
  @@ "stacks/vue.csv" :> <<
      ("Category" :> "Reactivity" @@ "Guideline" :> "dark mode ref")>>
  @@ "stacks/flutter.csv" :> <<>>
  @@ "platforms/ios.csv" :> <<
      ("Category" :> "Navigation" @@ "Pattern" :> "tab bar"
         @@ "Description" :> "dark mode app"),
      ("Category" :> "Type" @@ "Pattern" :> "dynamic type font")>>
  @@ "platforms/android.csv" :> <<
      ("Category" :> "Navigation" @@ "Pattern" :> "bottom bar dark mode"),
      ("Category" :> "Type" @@ "Pattern" :> "font scale app")>>

PartialData ==
  "styles.csv" :> <<
      ("Style Category" :> "Brutalism" @@ "Keywords" :> "raw bold dark font")>>
  @@ "landing.csv" :> <<
      ("Pattern Name" :> "Waitlist" @@ "Keywords" :> "ios app dark mode"
         @@ "Platform_Support" :> "mobile"),
      ("Pattern Name" :> "Story" @@ "Keywords" :> "wizard intro"
         @@ "Platform_Support" :> "web"),
      ("Pattern Name" :> "Split" @@ "Keywords" :> "wizard tour"),
      ("Pattern Name" :> "Drawer" @@ "Keywords" :> "wizard intro tour"
         @@ "Platform_Support" :> "Mobile")>>
  @@ "stacks/react.csv" :> <<
      ("Category" :> "Hooks" @@ "Guideline" :> "dark mode hooks")>>
  @@ "platforms/ios.csv" :> <<
      ("Category" :> "Navigation" @@ "Pattern" :> "tab bar dark mode app")>>

DataDirectories == {FullData, PartialData}

\* a string of n copies of s
RECURSIVE Repeat(_, _)
Repeat(s, n) ==
  IF n = 0 THEN ""
  ELSE IF n = 1 THEN s
  ELSE Repeat(s, n \div 2) \o Repeat(s, n - n \div 2)

\* Arguments a caller may pass
QueryInputs ==
  {undefined, null, Str(""), Str("   "), Str("dark mode"), Str("hex font"),
   Str(" Font "), Str("ios app"), Str("app"), Str("zzz"), Str("react hooks"),
   Str("Material 3"), Num(42),
   Str(Repeat("x", 500)), Str(Repeat("x", 501)), Str(Repeat("x", 499) \o "  ")}

SearchableQueries ==
  {Str("dark mode"), Str("hex font"), Str(" Font "), Str("ios app"), Str("app"),
   Str("zzz"), Str("react hooks"), Str("dark mode font")}

MaxResultsInputs ==
  {undefined, null, Num(1), Num(2), Num(3), Num(50), Num(0), Num(51), Num(-1),
   Dec(25, 10), NaN, Str("5"), Str("abc"), Str(""), Bool(TRUE)}

AcceptedMaxResults == {Num(1), Num(2), Num(3), Num(50)}

\* objects a caller may pass where a string or a number is expected
ObjectInputs == {Obj("[object Object]"), Obj("7"), NoPrimitive}

ValidationInputs ==
  {[query |-> q, maxResults |-> n] : q \in QueryInputs, n \in MaxResultsInputs}

\* the (query, maxResults) pairs the handlers are called with
SearchInputs ==
  {[query |-> q, maxResults |-> n] : q \in SearchableQueries, n \in AcceptedMaxResults}
    \cup {[query |-> q, maxResults |-> undefined] : q \in QueryInputs}
    \cup {[query |-> Str("dark mode"), maxResults |-> n] : n \in MaxResultsInputs}
    \cup {[query |-> q, maxResults |-> undefined] : q \in ObjectInputs}
    \cup {[query |-> Str("dark mode"), maxResults |-> n] : n \in ObjectInputs}

StyleDomainInputs ==
  {undefined, Str("style"), Str("color"), Str("bogus"), Str(""), Num(2)}
ComponentTypeInputs == {undefined, Str("chart"), Str("bogus")}
PatternTypeInputs == {undefined, Str("layout"), Str("ux"), Str("bogus")}
\* the (query, maxResults) pairs searchPatterns is called with
PatternInputs ==
  SearchInputs \cup {[query |-> Str("android wizard"), maxResults |-> Num(1)]}
PlatformNameInputs ==
  {undefined, null, Str("ios"), Str(" Android "), Str("web"), NoPrimitive}
StackNameInputs ==
  {undefined, Str("react"), Str(" Vue "), Str("flutter"), Str("angular"), NoPrimitive}

\* the arguments getDesignSystem is called with
DesignSystemDefaults ==
  [query |-> Str("ios app"), style |-> undefined, mode |-> undefined,
   maxResults |-> undefined, platform |-> undefined, outputFormat |-> undefined,
   includeHoverEffects |-> undefined]
DesignSystemQueries ==
  {Str("ios app"), Str("dark mode"), Str("landing page"), Str("app dashboard"),
   Str("admin Panel app"), Str("android wizard"), Str("zzz"), Str(""), undefined,
   NoPrimitive}
DesignSystemPlatforms ==
  {undefined, null, Str(""), Str("web"), Str("mobile-ios"), Str("Mobile-Android"),
   Str("mobile"), Str("react-native"), Str("flutter"), Str("swiftui"), Str("expo"),
   Str("desktop"), NoPrimitive}
DesignSystemFormats ==
  {undefined, Str("ai-optimized"), Str("minimal"), Str("full"), Str("Structured"),
   Str("markdown"), NoPrimitive}
DesignSystemHoverFlags == {undefined, null, Bool(TRUE), Bool(FALSE), Str("false")}
DesignSystemModes == {undefined, Str("dark"), Str("Light"), Str("sepia"), NoPrimitive}
DesignSystemStyles == {undefined, Str(" glass "), Str("   "), NoPrimitive}
DesignSystemInputs ==
  {[DesignSystemDefaults EXCEPT !.query = q, !.platform = p, !.outputFormat = Str("full"),
                                !.maxResults = n] :
     q \in DesignSystemQueries, p \in DesignSystemPlatforms,
     n \in {undefined, Num(2)}}
    \cup {[DesignSystemDefaults EXCEPT !.outputFormat = f, !.includeHoverEffects = h] :
            f \in DesignSystemFormats, h \in DesignSystemHoverFlags}
    \cup {[DesignSystemDefaults EXCEPT !.mode = m, !.style = st, !.query = q] :
            m \in DesignSystemModes, st \in DesignSystemStyles,
            q \in {Str("ios app"), Str("dark mode")}}
    \cup {[DesignSystemDefaults EXCEPT !.maxResults = n] : n \in MaxResultsInputs}

Init ==
  /\ HandlersInit
  /\ NoHttpServer
  /\ bm25 = null
  /\ call = NoCall
  /\ ret = NoRet

InitializeIndexes(files) ==
  /\ call = NoCall
  /\ initializeIndexes(files)
  /\ call' = [fn |-> "initializeIndexes", args |-> <<files>>]
  /\ ret' = [kind |-> "void"]
  /\ UNCHANGED <<bm25, httpVars>>

\* a call of a function that leaves the module state alone
Respond(fn, args, response) ==
  /\ call = NoCall
  /\ call' = [fn |-> fn, args |-> args]
  /\ ret' = response
  /\ UNCHANGED <<bm25, handlerVars, httpVars>>

ValidateSearchInput(query, maxResults) ==
  LET returned(validation) ==
        IF IsThrown(validation) THEN validation
        ELSE [kind |-> "validation", validation |-> validation]
  IN  Respond("validateSearchInput", <<query, maxResults>>,
              returned(validateSearchInput(query, maxResults)))

SearchStylesOnly(query, maxResults) ==
  Respond("searchStylesOnly", <<query, maxResults>>, searchStylesOnly(query, maxResults))

SearchStyles(query, domainOrMaxResults, maxResults) ==
  Respond("searchStyles", <<query, domainOrMaxResults, maxResults>>,
          searchStyles(query, domainOrMaxResults, maxResults))

SearchColors(query, maxResults) ==
  Respond("searchColors", <<query, maxResults>>, searchColors(query, maxResults))

SearchTypography(query, maxResults) ==
  Respond("searchTypography", <<query, maxResults>>, searchTypography(query, maxResults))

SearchCharts(query, maxResults) ==
  Respond("searchCharts", <<query, maxResults>>, searchCharts(query, maxResults))

SearchUXGuidelines(query, maxResults) ==
  Respond("searchUXGuidelines", <<query, maxResults>>,
          searchUXGuidelines(query, maxResults))

SearchIcons(query, maxResults) ==
  Respond("searchIcons", <<query, maxResults>>, searchIcons(query, maxResults))

SearchComponents(query, type, maxResults) ==
  Respond("searchComponents", <<query, type, maxResults>>,
          searchComponents(query, type, maxResults))

SearchPatterns(query, type, maxResults) ==
  Respond("searchPatterns", <<query, type, maxResults>>,
          searchPatterns(query, type, maxResults))

SearchLanding(query, maxResults) ==
  Respond("searchLanding", <<query, maxResults>>, searchLanding(query, maxResults))

SearchProducts(query, maxResults) ==
  Respond("searchProducts", <<query, maxResults>>, searchProducts(query, maxResults))

\* searchAll assigning the detection metadata to the documents it found
SearchAllAttaching(query, maxResults) ==
  LET returnedAs(doc, response) ==
        {i \in 1..Len(response.results) :
           \A key \in DOMAIN doc.data :
             /\ key \in DOMAIN response.results[i].data
             /\ response.results[i].data[key] = doc.data[key]}
      attach(doc, response) ==
        IF returnedAs(doc, response) = {} THEN doc
        ELSE [doc EXCEPT !.data =
                response.results[CHOOSE i \in returnedAs(doc, response) : TRUE].data]
      respond(response) ==
        /\ call = NoCall
        /\ call' = [fn |-> "searchAll", args |-> <<query, maxResults>>]
        /\ ret' = response
        /\ unifiedIndex' =
             IF response.kind = "results"
               THEN [unifiedIndex EXCEPT !.documents =
                       [i \in 1..Len(unifiedIndex.documents) |->
                          attach(unifiedIndex.documents[i], response)]]
               ELSE unifiedIndex
        /\ UNCHANGED <<bm25, stylesIndex, colorsIndex, typographyIndex, chartsIndex,
                       uxGuidelinesIndex, iconsIndex, landingIndex, productsIndex,
                       promptsIndex, stackIndexes, platformIndexes, allDocuments,
                       stylesData, colorsData, typographyData, chartsData,
                       uxGuidelinesData, iconsData, landingData, productsData,
                       promptsData, stacksData, platformsData, httpVars>>
  IN  respond(searchAll(query, maxResults))

SearchAll(query, maxResults) ==
  Respond("searchAll", <<query, maxResults>>, searchAll(query, maxResults))

SearchPrompts(query, maxResults) ==
  Respond("searchPrompts", <<query, maxResults>>, searchPrompts(query, maxResults))

SearchStack(stackName, query, maxResults) ==
  Respond("searchStack", <<stackName, query, maxResults>>,
          searchStack(stackName, query, maxResults))

SearchPlatforms(query, platformName, maxResults) ==
  Respond("searchPlatforms", <<query, platformName, maxResults>>,
          searchPlatforms(query, platformName, maxResults))

\* the caller takes the returned value
Return ==
  /\ call # NoCall
  /\ call' = NoCall
  /\ ret' = NoRet
  /\ UNCHANGED <<bm25, handlerVars, httpVars>>

GetDesignSystem(query, style, mode, maxResults, platform, outputFormat, includeHoverEffects) ==
  Respond("getDesignSystem",
          <<query, style, mode, maxResults, platform, outputFormat, includeHoverEffects>>,
          getDesignSystem(query, style, mode, maxResults, platform, outputFormat,
                          includeHoverEffects))

Next ==
  \/ \E files \in DataDirectories : InitializeIndexes(files)
  \/ \E in \in ValidationInputs : ValidateSearchInput(in.query, in.maxResults)
  \/ \E in \in SearchInputs : SearchStylesOnly(in.query, in.maxResults)
  \/ \E in \in SearchInputs, d \in StyleDomainInputs :
       SearchStyles(in.query, d, in.maxResults)
  \/ \E in \in SearchInputs : SearchColors(in.query, in.maxResults)
  \/ \E in \in SearchInputs : SearchTypography(in.query, in.maxResults)
  \/ \E in \in SearchInputs : SearchCharts(in.query, in.maxResults)
  \/ \E in \in SearchInputs : SearchUXGuidelines(in.query, in.maxResults)
  \/ \E in \in SearchInputs : SearchIcons(in.query, in.maxResults)
  \/ \E in \in SearchInputs, type \in ComponentTypeInputs :
       SearchComponents(in.query, type, in.maxResults)
  \/ \E in \in PatternInputs, type \in PatternTypeInputs :
       SearchPatterns(in.query, type, in.maxResults)
  \/ \E in \in SearchInputs : SearchLanding(in.query, in.maxResults)
  \/ \E in \in SearchInputs : SearchProducts(in.query, in.maxResults)
  \/ \E in \in SearchInputs : SearchAll(in.query, in.maxResults)
  \/ \E in \in SearchInputs : SearchPrompts(in.query, in.maxResults)
  \/ \E in \in SearchInputs, stackName \in StackNameInputs :
       SearchStack(stackName, in.query, in.maxResults)
  \/ \E in \in SearchInputs, platformName \in PlatformNameInputs :
       SearchPlatforms(in.query, platformName, in.maxResults)
  \/ \E in \in DesignSystemInputs :
       GetDesignSystem(in.query, in.style, in.mode, in.maxResults, in.platform,
                       in.outputFormat, in.includeHoverEffects)
  \/ Return

Spec == Init /\ [][Next]_vars

\* The handlers that search an index
SearchHandlers ==
  {"searchStylesOnly", "searchStyles", "searchColors", "searchTypography",
   "searchCharts", "searchUXGuidelines", "searchIcons", "searchComponents",
   "searchPatterns", "searchLanding", "searchProducts", "searchAll",
   "searchPrompts", "searchStack", "searchPlatforms"}

\* The query and the maxResults the called handler hands to validateSearchInput
ValidatedQuery == IF call.fn = "searchStack" THEN call.args[2] ELSE call.args[1]

ValidatedMaxResults ==
  IF call.fn = "searchStyles" /\ TypeOf(call.args[2]) = "number"
    THEN call.args[2]
    ELSE call.args[Len(call.args)]

\* C1: a successful result of a public search operation holds at most n
\* records, n being the accepted maxResults (in 1..50, and the number the
\* caller passed if it passed one); so does the result of every BM25.search
\* a handler runs, for the limit it was given.
MaxResultsBound ==
  (call.fn \in SearchHandlers /\ ret.kind = "results") =>
    LET n == ret.validated[1].maxResults
    IN  /\ n \in 1..50
        /\ TypeOf(ValidatedMaxResults) = "number" => n = ValidatedMaxResults.num
        /\ Len(ret.results) <= n
        /\ \A i \in 1..Len(ret.searches) :
             ret.searches[i].count <= ret.searches[i].maxResults

\* searchStyles("dark mode", undefined, 1) finds two records in each of
\* several indexes and returns one
MaxResultsBoundWitness ==
  /\ call.fn = "searchStyles"
  /\ ret.kind = "results"
  /\ ret.validated[1].maxResults = 1
  /\ Len(ret.searches) = 4
  /\ \E i \in 1..Len(ret.searches) : ret.searches[i].count = 2
  /\ Len(ret.results) = 1

Supplied(maxResults) == maxResults # undefined /\ maxResults # null

\* a number that is not an integer of 1..50
OutOfRange(n) == n.den # 1 \/ n.num < 1 \/ n.num > 50

\* The inputs C2 names, read as written: the length is that of the query as
\* passed, and a maxResults that is not a number is not an integer
RejectedAsClaimed(query, maxResults) ==
  \/ query = undefined \/ query = null
  \/ ~ToPrimitiveThrows(query)
       /\ \/ Len(trim(String(query))) = 0
          \/ Len(String(query)) > 500
          \/ Supplied(maxResults)
               /\ (TypeOf(maxResults) # "number" \/ OutOfRange(maxResults))

\* The inputs the code rejects: the length is that of the trimmed query and
\* maxResults is judged by the number Number(maxResults).  An object with no
\* primitive value has neither a length nor a number: it is not rejected,
\* its conversion throws
Rejected(query, maxResults) ==
  \/ query = undefined \/ query = null
  \/ ~ToPrimitiveThrows(query)
       /\ \/ Len(trim(String(query))) = 0
          \/ Len(trim(String(query))) > 500
          \/ Supplied(maxResults) /\ ~ToPrimitiveThrows(maxResults)
               /\ OutOfRange(Number(maxResults))

\* searchStack converts the stack name before it validates the query: with a
\* name that has no primitive value it never reaches validateSearchInput
StackNameThrows == call.fn = "searchStack" /\ ToPrimitiveThrows(call.args[1])

\* validateSearchInput fails, with an error text, exactly on the inputs
\* named (as the claim words them, or as the code rejects them) and otherwise
\* succeeds, with maxResults 3 when none was supplied; a handler called with
\* such an input returns an error and has searched no index
ValidationContract(asClaimed) ==
  LET Rejects(query, maxResults) ==
        IF asClaimed THEN RejectedAsClaimed(query, maxResults)
        ELSE Rejected(query, maxResults)
  IN  /\ call.fn = "validateSearchInput" =>
           LET validation == ret.validation
               query == call.args[1]
               maxResults == call.args[2]
           IN  /\ validation.valid = ~Rejects(query, maxResults)
               /\ ~validation.valid => Len(validation.error) > 0
               /\ validation.valid =>
                    validation.maxResults =
                      IF Supplied(maxResults) THEN Number(maxResults).num ELSE 3
      /\ call.fn \in SearchHandlers /\ ~StackNameThrows =>
           /\ Rejects(ValidatedQuery, ValidatedMaxResults) =>
                ret.kind = "error" /\ Len(ret.error) > 0 /\ ret.searches = <<>>
           /\ \A i \in 1..Len(ret.validated) :
                ~ret.validated[i].valid =>
                  ret.kind = "error" /\ ret.error = ret.validated[i].error
                    /\ ret.searches = <<>>

LookupName(name) == trim(toLowerCase(String(name)))

\* the text lists every name of the set
Enumerates(text, names) == \A i \in 1..Len(names) : includes(text, names[i])

\* every argument of the call converts to a primitive value
ArgumentsConvert == \A i \in 1..Len(call.args) : ~ToPrimitiveThrows(call.args[i])

\* A lookup by a supplied name outside the valid set returns an error and
\* searches nothing; the error lists every valid name (always, or, for
\* searchPlatforms, when the query and maxResults pass validation: it
\* validates them first and returns their error otherwise).  A name is a
\* value that converts to a string
UnknownNameRejected(always) ==
  /\ (/\ call.fn = "searchStack"
      /\ Supplied(call.args[1])
      /\ ~ToPrimitiveThrows(call.args[1])
      /\ LookupName(call.args[1]) \notin Range(AVAILABLE_STACKS)) =>
       /\ ret.kind = "error"
       /\ ret.searches = <<>>
       /\ Enumerates(ret.error, AVAILABLE_STACKS)
  /\ (/\ call.fn = "searchPlatforms"
      /\ Supplied(call.args[2])
      /\ ArgumentsConvert
      /\ LookupName(call.args[2]) \notin Range(AVAILABLE_PLATFORMS)) =>
       /\ ret.kind = "error"
       /\ ret.searches = <<>>
       /\ IF always \/ ~Rejected(call.args[1], call.args[3])
            THEN Enumerates(ret.error, AVAILABLE_PLATFORMS)
            ELSE ret.error = ret.validated[1].error /\ Len(ret.error) > 0

----------------------------------------------------------------------------
(* Exceptions crossing the public boundary                                 *)

\* C15: in every state of the indexes and for every input, each search
\* handler returns either a success value or a structured {error: string}
\* value; none lets an exception cross its boundary.
NoThrow ==
  call.fn \in SearchHandlers =>
    \/ ret.kind = "results"
    \/ ret.kind = "error" /\ Len(ret.error) > 0

\* searchColors({"toString": 1, "valueOf": 1}): String(query) throws a
\* TypeError inside validateSearchInput and nothing catches it
NoThrowWitness ==
  /\ call.fn = "searchColors"
  /\ call.args = <<NoPrimitive, undefined>>
  /\ ret = TypeError

\* The only exception a handler lets through is that conversion: a call
\* whose arguments all convert to primitives returns results or an error
ThrowsOnlyOnConversion ==
  call.fn \in SearchHandlers /\ ret.kind = "throw" =>
    \E i \in 1..Len(call.args) : ToPrimitiveThrows(call.args[i])


----------------------------------------------------------------------------
(* Searching a domain whose index was not built                            *)

\* the handlers over one index each, and that index
SingleIndexHandlers ==
  {"searchStylesOnly", "searchColors", "searchTypography", "searchCharts",
   "searchUXGuidelines", "searchIcons", "searchLanding", "searchProducts",
   "searchPrompts", "searchAll"}

RequestedIndex ==
  CASE call.fn = "searchStylesOnly" -> stylesIndex
    [] call.fn = "searchColors" -> colorsIndex
    [] call.fn = "searchTypography" -> typographyIndex
    [] call.fn = "searchCharts" -> chartsIndex
    [] call.fn = "searchUXGuidelines" -> uxGuidelinesIndex
    [] call.fn = "searchIcons" -> iconsIndex
    [] call.fn = "searchLanding" -> landingIndex
    [] call.fn = "searchProducts" -> productsIndex
    [] call.fn = "searchPrompts" -> promptsIndex
    [] call.fn = "searchAll" -> unifiedIndex

\* the handlers that merge several domains, their domains, and the one
\* domain the caller named ("" when it named none)
MergedHandlers == {"searchStyles", "searchComponents", "searchPatterns"}

MergedDomains ==
  CASE call.fn = "searchStyles" -> <<"style", "color", "typography", "prompt">>
    [] call.fn = "searchComponents" -> <<"icon", "chart">>
    [] call.fn = "searchPatterns" -> <<"layout", "ux", "product">>

NamedDomain == IF TypeOf(call.args[2]) = "string" THEN call.args[2].str ELSE ""

RequestedDomains == IF NamedDomain = "" THEN MergedDomains ELSE <<NamedDomain>>

DomainIndex(d) ==
  CASE d = "style" -> stylesIndex
    [] d = "color" -> colorsIndex
    [] d = "typography" -> typographyIndex
    [] d = "prompt" -> promptsIndex
    [] d = "icon" -> iconsIndex
    [] d = "chart" -> chartsIndex
    [] d = "layout" -> landingIndex
    [] d = "ux" -> uxGuidelinesIndex
    [] d = "product" -> productsIndex

\* the call passes validation
Accepted ==
  /\ call.fn \in SearchHandlers
  /\ ArgumentsConvert
  /\ ~Rejected(ValidatedQuery, ValidatedMaxResults)

IndexNotReadyError ==
  ret.kind = "error" /\ includes(ret.error, "index not initialized")
    /\ ret.searches = <<>>

\* A handler over one index returns the index-not-initialized error when
\* its index is absent and results when it is built, whatever the other
\* indexes are; so does a lookup of one stack or platform.  A merged handler
\* searches exactly the built indexes among the requested domains; asked for
\* one domain whose index is absent it returns the error (errorFromMerged)
\* or an empty result list
IndexNotReady(errorFromMerged) ==
  /\ Accepted /\ call.fn \in SingleIndexHandlers =>
       IF RequestedIndex = null THEN IndexNotReadyError ELSE ret.kind = "results"
  /\ (/\ Accepted /\ call.fn = "searchStack"
      /\ LookupName(call.args[1]) \in Range(AVAILABLE_STACKS)) =>
       IF MapGet(stackIndexes, LookupName(call.args[1])) = null
         THEN IndexNotReadyError ELSE ret.kind = "results"
  /\ (/\ Accepted /\ call.fn = "searchPlatforms" /\ Supplied(call.args[2])
      /\ LookupName(call.args[2]) \in Range(AVAILABLE_PLATFORMS)) =>
       IF MapGet(platformIndexes, LookupName(call.args[2])) = null
         THEN IndexNotReadyError ELSE ret.kind = "results"
  /\ (/\ Accepted /\ call.fn \in MergedHandlers
      /\ NamedDomain \in Range(MergedDomains) \cup {""}) =>
       IF errorFromMerged /\ NamedDomain # "" /\ DomainIndex(NamedDomain) = null
         THEN IndexNotReadyError
         ELSE /\ ret.kind = "results"
              /\ [i \in 1..Len(ret.searches) |-> ret.searches[i].index]
                   = SelectSeq(RequestedDomains, LAMBDA d : DomainIndex(d) # null)
              /\ ret.searches = <<>> => ret.results = <<>>

\* C16 as stated: a search requested against a domain whose index was not
\* built returns a descriptive {error} string for that domain, while
\* searches against the other, built domains keep returning results.
IndexNotReadyAlwaysError == IndexNotReady(TRUE)

\* C16 amended: the handlers over a single index (and the lookup of one
\* stack or platform) return the error; searchStyles, searchComponents and
\* searchPatterns skip a domain whose index was not built and return the
\* results of the built ones, an empty list when there is none.
IndexNotReadySkippedWhenMerged == IndexNotReady(FALSE)

\* With styles built and colors not: searchStyles("dark mode", "color")
\* returns an empty list and no error
IndexNotReadyWitness ==
  /\ call.fn = "searchStyles"
  /\ call.args = <<Str("dark mode"), Str("color"), undefined>>
  /\ colorsIndex = null
  /\ stylesIndex # null
  /\ ret.kind = "results"
  /\ ret.results = <<>>
  /\ ret.searches = <<>>


----------------------------------------------------------------------------
(* The indexes against the loaded data                                     *)

\* each single index with the data it was last asked to cover
IndexedData ==
  <<[index |-> stylesIndex, data |-> stylesData],
    [index |-> colorsIndex, data |-> colorsData],
    [index |-> typographyIndex, data |-> typographyData],
    [index |-> chartsIndex, data |-> chartsData],
    [index |-> uxGuidelinesIndex, data |-> uxGuidelinesData],
    [index |-> iconsIndex, data |-> iconsData],
    [index |-> landingIndex, data |-> landingData],
    [index |-> productsIndex, data |-> productsData],
    [index |-> promptsIndex, data |-> promptsData],
    [index |-> unifiedIndex, data |-> allDocuments]>>

\* C17: after any sequence of initializeIndexes calls, for every domain
\* (and for the unified index) the index is present if and only if the
\* most recently loaded data of that domain holds at least one document,
\* and no built index is an index over zero documents.
IndexPresentIffData ==
  \A i \in 1..Len(IndexedData) :
    /\ IndexedData[i].index # null <=> Len(IndexedData[i].data) > 0
    /\ IndexedData[i].index # null => Len(IndexedData[i].index.documents) > 0

\* initializeIndexes over a directory with colors, then over one without:
\* colorsData is empty and colorsIndex is still the index of the first load
IndexPresentIffDataWitness ==
  /\ call.fn = "initializeIndexes"
  /\ colorsData = <<>>
  /\ colorsIndex # null
  /\ Len(colorsIndex.documents) > 0

\* What the loads do keep: data that holds a document has an index, a built
\* index covers at least one document, and the per-stack and per-platform
\* indexes, which are cleared before each load, follow the loaded data
IndexPresentIfData ==
  /\ \A i \in 1..Len(IndexedData) :
       /\ Len(IndexedData[i].data) > 0 =>
            /\ IndexedData[i].index # null
            /\ Len(IndexedData[i].index.documents) = Len(IndexedData[i].data)
       /\ IndexedData[i].index # null => Len(IndexedData[i].index.documents) > 0
  /\ \A i \in 1..Len(stacksData) :
       MapGet(stackIndexes, stacksData[i].key) # null <=> Len(stacksData[i].value) > 0
  /\ \A i \in 1..Len(stackIndexes) :
       \E j \in 1..Len(stacksData) : stacksData[j].key = stackIndexes[i].key


----------------------------------------------------------------------------
(* The average document length of a BM25 index                             *)

\* C18: in every constructed BM25 index the average document length is
\* strictly positive: it is 1 when the collection is empty or every
\* document tokenizes to nothing and the mean token count otherwise, so the
\* length normalization of the score never divides by zero.
AvgDocLengthPositive ==
  LET avg == bm25.avgDocLength
      total == sumLengths(bm25.tokenizedDocs)
  IN  /\ avg.num > 0 /\ avg.den > 0
      /\ IF total = 0 THEN avg = [num |-> 1, den |-> 1]
         ELSE avg = [num |-> total, den |-> Len(bm25.documents)]
      /\ call.fn = "search" => \A d \in ret.divisors : d # 0

\* an index over two documents that both tokenize to nothing
AvgDocLengthPositiveWitness ==
  /\ call.fn = "construct"
  /\ Len(bm25.documents) = 2
  /\ bm25.tokenizedDocs = <<<<>>, <<>>>>
  /\ bm25.avgDocLength = [num |-> 1, den |-> 1]


----------------------------------------------------------------------------
(* The detection metadata of searchAll                                     *)

\* every record carries what was detected: the domains if there are any,
\* the stacks if there are any
CarriesMetadata(results, detectedDomains, detectedStacks) ==
  \A i \in 1..Len(results) :
    /\ Len(detectedDomains) > 0 =>
         /\ "_detectedDomains" \in DOMAIN results[i].data
         /\ results[i].data._detectedDomains = detectedDomains
    /\ Len(detectedStacks) > 0 =>
         /\ "_detectedStacks" \in DOMAIN results[i].data
         /\ results[i].data._detectedStacks = detectedStacks

\* C19: whenever searchAll detects at least one domain or stack for the
\* query, every record it returns carries the detected-domain and
\* detected-stack metadata, whichever strategy produced the result.
MetadataOnEveryRecord ==
  call.fn = "searchAll" /\ ret.kind = "results" =>
    CarriesMetadata(ret.results, detectDomains(ret.validated[1].query),
                    detectStacks(ret.validated[1].query))

\* searchAll("react hooks"): the react stack is detected and no domain, the
\* standard strategy answers, and the records found carry no metadata
MetadataOnEveryRecordWitness ==
  /\ call.fn = "searchAll"
  /\ call.args[1] = Str("react hooks")
  /\ ret.kind = "results"
  /\ ret.strategy = 4
  /\ Len(ret.results) > 0
  /\ detectStacks(ret.validated[1].query) # <<>>
  /\ \A i \in 1..Len(ret.results) : "_detectedStacks" \notin DOMAIN ret.results[i].data

\* The three prioritizing strategies do attach the metadata
MetadataWhenPrioritized ==
  call.fn = "searchAll" /\ ret.kind = "results" /\ ret.strategy \in 1..3 =>
    CarriesMetadata(ret.results, detectDomains(ret.validated[1].query),
                    detectStacks(ret.validated[1].query))


----------------------------------------------------------------------------
(* The high-confidence strategy of searchAll                               *)

\* the returned record is the found one: its score and every field of it
SameRecord(returned, found) ==
  /\ returned.score = found.score
  /\ \A key \in DOMAIN found.document.data :
       /\ key \in DOMAIN returned.data
       /\ returned.data[key] = found.document.data[key]

\* returned is, in order, the first domainCount records of ofType followed
\* by the first otherCount records of others
DomainFirst(returned, ofType, domainCount, others, otherCount) ==
  /\ Len(returned) = domainCount + otherCount
  /\ \A i \in 1..domainCount : SameRecord(returned[i], ofType[i])
  /\ \A i \in 1..otherCount : SameRecord(returned[domainCount + i], others[i])

\* slots records of the target type come first, as many as there are, and
\* the others fill up to maxResults; found is in BM25 order
HighConfidenceOrder(returned, found, targetType, slots, maxResults) ==
  LET ofType == SelectSeq(found, LAMBDA r : resultType(r) = targetType)
      others == SelectSeq(found, LAMBDA r : resultType(r) # targetType)
      domainCount == IF Len(ofType) < slots THEN Len(ofType) ELSE slots
      free == maxResults - domainCount
  IN  DomainFirst(returned, ofType, domainCount, others,
                  IF Len(others) < free THEN Len(others) ELSE free)

\* the top detected domain of the query searchAll searched with, if its
\* confidence is at least 0.7
TopDomain(detectedDomains) ==
  IF Len(detectedDomains) > 0 /\ detectedDomains[1].confidence >= 700
    THEN detectedDomains[1].domain ELSE ""

\* C20: when the top detected domain has confidence >= 0.7, searchAll uses
\* the high-confidence strategy whatever else was detected: it returns
\* first up to ceil(0.8 * maxResults) unified results whose document type
\* is the detected domain's type, in BM25 order, then results of other
\* types in BM25 order filling the remaining slots up to maxResults.
HighConfidenceFirst ==
  (/\ call.fn = "searchAll" /\ ret.kind = "results"
   /\ TopDomain(detectDomains(ret.validated[1].query)) # "") =>
    /\ ret.strategy = 1
    /\ HighConfidenceOrder(
         ret.results,
         search(unifiedIndex, ret.validated[1].query, 3 * ret.validated[1].maxResults),
         domainToTypeMap(TopDomain(detectDomains(ret.validated[1].query))),
         (8 * ret.validated[1].maxResults + 9) \div 10,
         ret.validated[1].maxResults)

\* searchAll("dark mode font", 2) on the full data: style (0.85) and
\* typography (0.6) are both detected, which would do for the balanced
\* strategy; the one style record among the six found comes first and the
\* best record of another type, which scores higher, fills the other slot
HighConfidenceFirstWitness ==
  /\ call.fn = "searchAll"
  /\ call.args = <<Str("dark mode font"), Num(2)>>
  /\ ret.kind = "results"
  /\ Len(SelectSeq(detectDomains(ret.validated[1].query),
                   LAMBDA d : d.confidence >= 500)) > 1
  /\ ret.strategy = 1
  /\ Len(ret.results) = 2
  /\ Field(ret.results[1].data, "type") = "style"
  /\ Field(ret.results[2].data, "type") = "typography"
  /\ ret.results[2].score > ret.results[1].score


----------------------------------------------------------------------------
(* The scores of the domain and platform classifiers                       *)

\* min(1.0, maxMatchedWeight + min(boostMax, (matchCount - 1) * boostStep))
\* over the keywords of one category that match, 0 when none does; in
\* thousandths
CategoryScore(lowerQuery, keywords, boostStep, boostMax) ==
  LET matched == {j \in 1..Len(keywords) : matchesKeyword(lowerQuery, keywords[j].keyword)}
      heaviest == CHOOSE j \in matched :
                    \A k \in matched : keywords[k].weight <= keywords[j].weight
      boost == IF (Cardinality(matched) - 1) * boostStep < boostMax
                 THEN (Cardinality(matched) - 1) * boostStep ELSE boostMax
  IN  IF matched = {} THEN 0
      ELSE IF keywords[heaviest].weight + boost > 1000 THEN 1000
      ELSE keywords[heaviest].weight + boost

DomainScore(lowerQuery, i) ==
  CategoryScore(lowerQuery, domainKeywordsWeighted[i].keywords, 30, 100)

PlatformScore(lowerQuery, i) ==
  CategoryScore(lowerQuery, PLATFORM_KEYWORDS[i].keywords, 50, 150)

\* the matches are the domains with a matched keyword and a score of 0.2
\* or more, each with its score, in descending order of score
DomainMatchesAsScored(matches, lowerQuery) ==
  LET kept == {i \in 1..Len(domainKeywordsWeighted) : DomainScore(lowerQuery, i) >= 200}
  IN  /\ Len(matches) = Cardinality(kept)
      /\ \A i \in kept :
           \E k \in 1..Len(matches) :
             matches[k] = [domain |-> domainKeywordsWeighted[i].category,
                           confidence |-> DomainScore(lowerQuery, i)]
      /\ \A k \in 1..(Len(matches) - 1) :
           matches[k].confidence >= matches[k + 1].confidence

\* the intent is a best-scoring platform with its score and its matched
\* keywords, or web with 0.3 and no keyword when no platform keyword matches
PlatformIntentAsScored(intent, lowerQuery) ==
  LET platforms == 1..Len(PLATFORM_KEYWORDS)
      scoring == {i \in platforms : PlatformScore(lowerQuery, i) > 0}
  IN  IF scoring = {}
        THEN /\ intent.platform = "web"
             /\ intent.confidence = 300
             /\ intent.matched_keywords = <<>>
        ELSE \E i \in scoring :
               /\ \A j \in scoring : PlatformScore(lowerQuery, j)
                                       <= PlatformScore(lowerQuery, i)
               /\ intent.platform = PLATFORM_KEYWORDS[i].category
               /\ intent.confidence = PlatformScore(lowerQuery, i)
               /\ Len(intent.matched_keywords) > 0
               /\ \A k \in 1..Len(intent.matched_keywords) :
                    matchesKeyword(lowerQuery, intent.matched_keywords[k])

\* C24: for the domain and platform classifiers a category's score is
\* min(1.0, maxMatchedWeight + boost), with boost = min(0.1, (matchCount-1)
\* * 0.03) for domains and min(0.15, (matchCount-1) * 0.05) for platforms;
\* a category with no matched keyword is omitted; the domain matches come
\* sorted by score descending, those below 0.2 discarded; the platform
\* classifier returns {platform: web, confidence: 0.3} with no matched
\* keyword when nothing matched.
ClassifierScores ==
  /\ call.fn = "detectDomains" =>
       DomainMatchesAsScored(ret.matches, toLowerCase(call.query))
  /\ call.fn = "detectPlatformIntent" =>
       PlatformIntentAsScored(ret.intent, toLowerCase(call.query))

\* "landing page website web app" matches four web keywords, the heaviest
\* of weight 0.7: the platform score is 0.7 + min(0.15, 3 * 0.05) = 0.85
ClassifierScoresWitness ==
  /\ call.fn = "detectPlatformIntent"
  /\ call.query = "landing page website web app"
  /\ ret.intent.platform = "web"
  /\ ret.intent.confidence = 850
  /\ Len(ret.intent.matched_keywords) = 4

\* ---- query expansion ----

\* the entries of DOMAIN_MAPPINGS whose key occurs in the lowercased query
Triggered(queryStr) ==
  {i \in 1..Len(DOMAIN_MAPPINGS) : includes(toLowerCase(queryStr), DOMAIN_MAPPINGS[i].key)}

\* the place of entry i among the triggered ones: longer keys first, entries
\* with keys of one length in the order of the table
TriggerRank(triggered, i) ==
  Cardinality({j \in triggered :
                 \/ Len(DOMAIN_MAPPINGS[j].key) > Len(DOMAIN_MAPPINGS[i].key)
                 \/ /\ Len(DOMAIN_MAPPINGS[j].key) = Len(DOMAIN_MAPPINGS[i].key)
                    /\ j < i}) + 1

\* text ends with the values of the triggered entries, rank k..n, each after a space
RECURSIVE AppendedFrom(_, _, _)
AppendedFrom(triggered, k, text) ==
  IF k > Cardinality(triggered) THEN text
  ELSE LET i == CHOOSE j \in triggered : TriggerRank(triggered, j) = k
       IN  AppendedFrom(triggered, k + 1, text \o " " \o DOMAIN_MAPPINGS[i].value)

\* C25: query expansion only appends: the query of an accepted validation is
\* the original (trimmed) query followed by the expansion text of every
\* trigger key the lowercased query contains, longest key first, nothing
\* replaced and nothing de-duplicated, and originalQuery is the query as given
ExpansionAppendOnly ==
  (call.fn = "validateSearchInput" /\ ret.kind = "validation"
     /\ ret.validation.valid) =>
    LET original == trim(String(call.args[1]))
        triggered == Triggered(original)
    IN  /\ ret.validation.originalQuery = original
        /\ ret.validation.query = AppendedFrom(triggered, 1, original)

\* "Material 3" is accepted: it contains the keys "material 3" and "material",
\* both expansions are appended, the longer key's first, and both hold "android"
ExpansionAppendOnlyWitness ==
  /\ call.fn = "validateSearchInput"
  /\ call.args[1] = Str("Material 3")
  /\ ret.kind = "validation"
  /\ ret.validation.valid
  /\ ret.validation.originalQuery = "Material 3"
  /\ ret.validation.query =
       "Material 3 " \o DOMAIN_EXPANSION("material 3") \o " " \o DOMAIN_EXPANSION("material")
  /\ Cardinality(Triggered("Material 3")) = 2

\* ---- searchAll, the balanced strategy ----

\* the domains with confidence >= 0.5 when none reaches 0.7 and there are
\* at least two of them; <<>> otherwise
BalancedDomains(detectedDomains) ==
  LET multipleDomains == SelectSeq(detectedDomains, LAMBDA d : d.confidence >= 500)
  IN  IF /\ \A i \in 1..Len(detectedDomains) : detectedDomains[i].confidence < 700
         /\ Len(multipleDomains) >= 2
        THEN multipleDomains ELSE <<>>

\* the merge of the balanced strategy when a domain of confidence c gets
\* ceil((shareNum / shareDen) * c) slots: the first slots records of each
\* domain's type, then records of no balanced domain's type while fewer than
\* maxResults are collected, sorted by score and cut to maxResults
BalancedMerge(found, domains, shareNum, shareDen, maxResults) ==
  LET types == {domainToTypeMap(domains[i].domain) : i \in 1..Len(domains)}
      slots(i) == (shareNum * domains[i].confidence + shareDen * 1000 - 1)
                    \div (shareDen * 1000)
      taken == [i \in 1..Len(domains) |->
                  slice0(SelectSeq(found, LAMBDA r :
                                     resultType(r) = domainToTypeMap(domains[i].domain)),
                         slots(i))]
      leftover == SelectSeq(found, LAMBDA r : resultType(r) \notin types)
      fill(collected) ==
        IF Len(collected) < maxResults
          THEN collected \o slice0(leftover, maxResults - Len(collected))
          ELSE collected
  IN  slice0(sortByScoreDesc(fill(flatten(taken))), maxResults)

\* returned holds the records of expected, in order, with their scores
SameRecords(returned, expected) ==
  /\ Len(returned) = Len(expected)
  /\ \A i \in 1..Len(expected) : SameRecord(returned[i], expected[i])

\* searchAll returned the balanced merge of what the unified index finds for
\* the validated query, with the per-domain share shareNum / shareDen
BalancedWith(shareNum, shareDen) ==
  SameRecords(ret.results,
              BalancedMerge(search(unifiedIndex, ret.validated[1].query,
                                   3 * ret.validated[1].maxResults),
                            BalancedDomains(detectDomains(ret.validated[1].query)),
                            shareNum, shareDen, ret.validated[1].maxResults))

\* a searchAll call that answered with results for a query in which no domain
\* reaches 0.7 and at least two reach 0.5
BalancedCall ==
  /\ call.fn = "searchAll"
  /\ ret.kind = "results"
  /\ BalancedDomains(detectDomains(ret.validated[1].query)) # <<>>

\* C26 as stated: when no domain has confidence >= 0.7 and at least two have
\* confidence >= 0.5, each such domain gets ceil((maxResults / domainCount) *
\* confidence) slots filled from its document type, the remaining slots up to
\* maxResults are filled from leftover results, and the merge is returned
\* sorted by raw score descending
BalancedSlotsAsStated ==
  BalancedCall =>
    /\ ret.strategy = 2
    /\ BalancedWith(ret.validated[1].maxResults,
                    Len(BalancedDomains(detectDomains(ret.validated[1].query))))

\* C26 amended: the share of a domain is max(2, floor(maxResults /
\* domainCount)), its slots are ceil(share * confidence), leftover results
\* are added only while fewer than maxResults are collected, and the merge is
\* sorted by raw score descending and cut to maxResults
BalancedSlots ==
  BalancedCall =>
    /\ ret.strategy = 2
    /\ BalancedWith(Max(2, ret.validated[1].maxResults
                             \div Len(BalancedDomains(detectDomains(ret.validated[1].query)))),
                    1)

\* searchAll("hex font", 3) on the full data: color and typography are both
\* detected at 0.6, each gets ceil(2 * 0.6) = 2 slots where the stated
\* formula gives ceil(1.5 * 0.6) = 1, and three records are returned
BalancedSlotsWitness ==
  /\ BalancedCall
  /\ call.args = <<Str("hex font"), Num(3)>>
  /\ ret.strategy = 2
  /\ Len(ret.results) = 3
  /\ Cardinality({i \in 1..3 : Field(ret.results[i].data, "type") = "color"}) = 2

\* ---- searchAll, the query the classifier reads ----

\* the merge strategy searchAll selects for a list of detected domains
StrategyFor(detectedDomains) ==
  IF \E i \in 1..Len(detectedDomains) : detectedDomains[i].confidence >= 700 THEN 1
  ELSE IF Cardinality({i \in 1..Len(detectedDomains) :
                         detectedDomains[i].confidence >= 500}) > 1 THEN 2
  ELSE IF Len(detectedDomains) = 1 /\ detectedDomains[1].confidence >= 300 THEN 3
  ELSE 4

\* searchAll answered as if the domains detected were those of text: it
\* selected their strategy, and the domains its records report are these
ClassifiedAs(text) ==
  /\ ret.strategy = StrategyFor(detectDomains(text))
  /\ \A i \in 1..Len(ret.results) :
       "_detectedDomains" \in DOMAIN ret.results[i].data =>
         ret.results[i].data._detectedDomains = detectDomains(text)

\* C27: in searchAll the domain classifier runs on the original, unexpanded
\* query: the text appended by query expansion never changes which domains
\* are detected or which merge strategy is selected
ClassifierOnOriginalQuery ==
  call.fn = "searchAll" /\ ret.kind = "results" =>
    ClassifiedAs(ret.validated[1].originalQuery)

\* searchAll("ios app"): no domain keyword occurs in the query, which alone
\* selects the standard strategy; the expansion of "ios" brings "hig",
\* "cupertino" and others, platform is detected at 0.98 and the
\* high-confidence strategy answers with that detection on the records
ClassifierOnOriginalQueryWitness ==
  /\ call.fn = "searchAll"
  /\ call.args[1] = Str("ios app")
  /\ ret.kind = "results"
  /\ detectDomains(ret.validated[1].originalQuery) = <<>>
  /\ ret.strategy = 1
  /\ Len(ret.results) > 0
  /\ ret.results[1].data._detectedDomains[1] =
       [domain |-> "platform", confidence |-> 980]

\* What searchAll does: the classifier reads the expanded query
ClassifierOnExpandedQuery ==
  call.fn = "searchAll" /\ ret.kind = "results" =>
    ClassifiedAs(ret.validated[1].query)

\* ---- the type tag and the stored documents ----

\* the type tag of the domain a document was built for, read off its id
DocumentTag(id) ==
  LET isFor(prefix) == Len(id) > Len(prefix) /\ SubSeq(id, 1, Len(prefix) + 1) = prefix \o "-"
  IN  CASE isFor("style") -> "style"
        [] isFor("color") -> "color"
        [] isFor("typography") -> "typography"
        [] isFor("chart") -> "chart"
        [] isFor("ux") -> "ux-guideline"
        [] isFor("icon") -> "icon"
        [] isFor("landing") -> "landing"
        [] isFor("product") -> "product"
        [] isFor("prompt") -> "prompt"
        [] isFor("stack") -> "stack"
        [] isFor("platform") -> "platform"
        [] OTHER -> ""

\* every document of the index carries the tag
TaggedFor(index, tag) ==
  index # null =>
    \A i \in 1..Len(index.documents) :
      /\ "type" \in DOMAIN index.documents[i].data
      /\ index.documents[i].data.type = tag
      /\ DocumentTag(index.documents[i].id) = tag

\* every indexed document's data.type is the tag of its domain
TypeTagged ==
  /\ TaggedFor(stylesIndex, "style")
  /\ TaggedFor(colorsIndex, "color")
  /\ TaggedFor(typographyIndex, "typography")
  /\ TaggedFor(chartsIndex, "chart")
  /\ TaggedFor(uxGuidelinesIndex, "ux-guideline")
  /\ TaggedFor(iconsIndex, "icon")
  /\ TaggedFor(landingIndex, "landing")
  /\ TaggedFor(productsIndex, "product")
  /\ TaggedFor(promptsIndex, "prompt")
  /\ \A i \in 1..Len(stackIndexes) : TaggedFor(stackIndexes[i].value, "stack")
  /\ \A i \in 1..Len(platformIndexes) : TaggedFor(platformIndexes[i].value, "platform")
  /\ unifiedIndex # null =>
       \A i \in 1..Len(unifiedIndex.documents) :
         /\ "type" \in DOMAIN unifiedIndex.documents[i].data
         /\ unifiedIndex.documents[i].data.type =
              DocumentTag(unifiedIndex.documents[i].id)
         /\ DOMAIN unifiedIndex.documents[i].data
              \cap {"_domain", "_detectedDomains", "_detectedStacks"} = {}

\* a step that is not initializeIndexes leaves every index, every stored
\* document and the loaded data as they were
StoredUnchanged ==
  call'.fn # "initializeIndexes" => UNCHANGED handlerVars

\* C23: every indexed document's data.type equals the tag of the domain it
\* was built for; it is set when the index is built and never changed
\* afterwards: no search operation, the metadata attachment of searchAll and
\* the _domain tagging of the merged searches included, modifies any stored
\* document or index
TypeTagSetOnce ==
  []TypeTagged /\ [][StoredUnchanged]_vars

\* searchAll("dark mode") has answered with records that carry the detected
\* domains, and the documents of the unified index carry none
TypeTagSetOnceWitness ==
  /\ call.fn = "searchAll"
  /\ call.args[1] = Str("dark mode")
  /\ ret.kind = "results"
  /\ Len(ret.results) > 0
  /\ \A i \in 1..Len(ret.results) : "_detectedDomains" \in DOMAIN ret.results[i].data
  /\ \E i \in 1..Len(unifiedIndex.documents) :
       /\ unifiedIndex.documents[i].data.type = "ux-guideline"
       /\ unifiedIndex.documents[i].id = "ux-0"
  /\ TypeTagged

----------------------------------------------------------------------------
(* The HTTP server's session table (index.ts, runHTTPMode)                 *)

\* the configured capacity and time to live; time is counted in steps of
\* the clock, and a session's idle field is Date.now() - lastActivity,
\* which the server reads only to compare it with SESSION_TTL_MS and which
\* is therefore kept up to SESSION_TTL_MS + 1
MAX_SESSIONS == 2
SESSION_TTL_MS == 2

\* initialize requests that may be between the capacity test and the
\* registration of their session at one time
MaxConnecting == 2

\* the values randomUUID() may return
SessionIds == {"s1", "s2", "s3"}

\* the mcp-session-id headers a client may send; "" is no header
SessionIdHeaders == SessionIds \cup {""}

\* Object.keys(sessions).length
activeSessions == Cardinality(DOMAIN sessions)

\* delete sessions[id]
deleteSession(table, id) == [k \in DOMAIN table \ {id} |-> table[k]]

\* sessions[id].lastActivity = Date.now()
touch(table, id) == [table EXCEPT ![id] = [idle |-> 0]]

\* now - sessionInfo.lastActivity > SESSION_TTL_MS
expired(sessionInfo) == sessionInfo.idle > SESSION_TTL_MS

\* cleanupExpiredSessions that also removes a session idle for exactly the TTL
cleanupExpiredSessionsAtTTL(table) ==
  [k \in {id \in DOMAIN table : table[id].idle < SESSION_TTL_MS} |-> table[k]]

\* cleanupExpiredSessions with the table left: the sessions kept
cleanupExpiredSessions(table) ==
  [k \in {id \in DOMAIN table : ~expired(table[id])} |-> table[k]]

\* a request handled or a callback run: the response status written (0 if
\* none) and the sessions whose removal was logged
Served(method, request, status) ==
  /\ call' = [fn |-> method, request |-> request]
  /\ ret' = [kind |-> "http", status |-> status,
              closed |-> DOMAIN sessions \ DOMAIN sessions']

HttpFrame == UNCHANGED <<bm25, handlerVars>>

InitSessions ==
  /\ HandlersInit
  /\ bm25 = null
  /\ call = NoCall
  /\ ret = NoRet
  /\ sessions = <<>>
  /\ connecting = 0

\* app.post('/mcp') up to its first await: a known session is refreshed;
\* an initialize request without a session id is refused at capacity and
\* otherwise gets a transport, whose session id is not generated yet;
\* anything else is answered 400
PostMcp(sessionId, isInitializeRequest) ==
  /\ IF sessionId # "" /\ sessionId \in DOMAIN sessions
       THEN /\ sessions' = touch(sessions, sessionId)
            /\ connecting' = connecting
            /\ Served("POST", [sessionId |-> sessionId,
                               initialize |-> isInitializeRequest], 200)
     ELSE IF sessionId = "" /\ isInitializeRequest
       THEN IF activeSessions >= MAX_SESSIONS
              THEN /\ UNCHANGED <<sessions, connecting>>
                   /\ Served("POST", [sessionId |-> sessionId, initialize |-> TRUE], 503)
              ELSE /\ connecting < MaxConnecting
                   /\ connecting' = connecting + 1
                   /\ sessions' = sessions
                   /\ Served("POST", [sessionId |-> sessionId, initialize |-> TRUE], 0)
     ELSE /\ UNCHANGED <<sessions, connecting>>
          /\ Served("POST", [sessionId |-> sessionId,
                             initialize |-> isInitializeRequest], 400)
  /\ HttpFrame

\* onsessioninitialized: after server.connect, transport.handleRequest
\* generates the session id of an initialize request and the callback
\* enters the session in the table
OnSessionInitialized(id) ==
  /\ connecting > 0
  /\ id \notin DOMAIN sessions
  /\ sessions' = (id :> [idle |-> 0]) @@ sessions
  /\ connecting' = connecting - 1
  /\ Served("onsessioninitialized", [sessionId |-> id, initialize |-> TRUE], 200)
  /\ HttpFrame

\* app.get('/mcp')
GetMcp(sessionId) ==
  /\ IF sessionId \in DOMAIN sessions
       THEN /\ sessions' = touch(sessions, sessionId)
            /\ Served("GET", [sessionId |-> sessionId, initialize |-> FALSE], 200)
       ELSE /\ sessions' = sessions
            /\ Served("GET", [sessionId |-> sessionId, initialize |-> FALSE], 400)
  /\ connecting' = connecting
  /\ HttpFrame

\* app.delete('/mcp'): the transport of a known session handles the request
\* and closes, and its onclose removes the session
DeleteMcp(sessionId) ==
  /\ IF sessionId \in DOMAIN sessions
       THEN /\ sessions' = deleteSession(sessions, sessionId)
            /\ Served("DELETE", [sessionId |-> sessionId, initialize |-> FALSE], 200)
       ELSE /\ sessions' = sessions
            /\ Served("DELETE", [sessionId |-> sessionId, initialize |-> FALSE], 400)
  /\ connecting' = connecting
  /\ HttpFrame

\* transport.onclose of a session whose connection ended
OnClose(id) ==
  /\ id \in DOMAIN sessions
  /\ sessions' = deleteSession(sessions, id)
  /\ connecting' = connecting
  /\ Served("onclose", [sessionId |-> id, initialize |-> FALSE], 0)
  /\ HttpFrame

\* the interval timer fires: every expired session is closed and removed
CleanupExpiredSessions ==
  /\ sessions' = cleanupExpiredSessions(sessions)
  /\ connecting' = connecting
  /\ Served("cleanupExpiredSessions", [sessionId |-> "", initialize |-> FALSE], 0)
  /\ HttpFrame

\* Date.now() grows by one step
AdvanceClock ==
  /\ sessions' = [id \in DOMAIN sessions |->
                    [idle |-> IF expired(sessions[id]) THEN sessions[id].idle
                              ELSE sessions[id].idle + 1]]
  /\ connecting' = connecting
  /\ Served("clock", [sessionId |-> "", initialize |-> FALSE], 0)
  /\ HttpFrame

NextSessions ==
  \/ \E sessionId \in SessionIdHeaders, isInitializeRequest \in BOOLEAN :
       PostMcp(sessionId, isInitializeRequest)
  \/ \E id \in SessionIds : OnSessionInitialized(id)
  \/ \E sessionId \in SessionIdHeaders : GetMcp(sessionId)
  \/ \E sessionId \in SessionIdHeaders : DeleteMcp(sessionId)
  \/ \E id \in SessionIds : OnClose(id)
  \/ CleanupExpiredSessions
  \/ AdvanceClock

SpecSessions == InitSessions /\ [][NextSessions]_vars

\* the interval timer keeps firing and time keeps passing
SpecSessionsFair ==
  SpecSessions /\ WF_vars(CleanupExpiredSessions) /\ WF_vars(AdvanceClock)

\* an initialize request that arrives with the table at capacity is
\* answered 503 and creates no session
AtCapacityRefused ==
  (/\ call'.fn = "POST"
   /\ call'.request = [sessionId |-> "", initialize |-> TRUE]
   /\ activeSessions >= MAX_SESSIONS) =>
    /\ ret'.status = 503
    /\ UNCHANGED <<sessions, connecting>>

CapacityTestedOnArrival ==
  [](activeSessions + connecting <= MAX_SESSIONS + MaxConnecting)
    /\ [][AtCapacityRefused]_vars

\* a cleanup tick removes exactly the sessions whose last activity is older
\* than SESSION_TTL_MS and leaves the others as they are
CleanupExact ==
  call'.fn = "cleanupExpiredSessions" =>
    /\ DOMAIN sessions' = {id \in DOMAIN sessions : sessions[id].idle <= SESSION_TTL_MS}
    /\ \A id \in DOMAIN sessions' : sessions'[id] = sessions[id]
    /\ ret'.closed = {id \in DOMAIN sessions : sessions[id].idle > SESSION_TTL_MS}

\* a POST or GET that carries a known session id refreshes that session
RefreshOnRequest ==
  (call'.fn \in {"POST", "GET"} /\ call'.request.sessionId \in DOMAIN sessions) =>
    /\ call'.request.sessionId \in DOMAIN sessions'
    /\ sessions'[call'.request.sessionId].idle = 0
    /\ ret'.status = 200

\* the session has received no request since the clock last advanced
Idle(id) == id \in DOMAIN sessions /\ sessions[id].idle > 0

\* the session is gone, or a request has refreshed it
GoneOrRefreshed(id) == id \notin DOMAIN sessions \/ sessions[id].idle = 0

\* C30: session expiry follows the TTL: a cleanup tick removes exactly the
\* sessions whose last activity is older than SESSION_TTL_MS, so a session
\* active within the TTL is never removed by it; every POST or GET with a
\* known session id refreshes the session; and with the cleanup timer firing
\* and time passing, a session that receives no more requests is eventually
\* removed
SessionExpiry ==
  /\ [][CleanupExact /\ RefreshOnRequest]_vars
  /\ \A id \in SessionIds : Idle(id) ~> GoneOrRefreshed(id)

\* a cleanup tick has just closed an expired session and kept one that has
\* been idle for exactly SESSION_TTL_MS
SessionExpiryWitness ==
  /\ call.fn = "cleanupExpiredSessions"
  /\ ret.closed # {}
  /\ \E id \in DOMAIN sessions : sessions[id].idle = SESSION_TTL_MS

----------------------------------------------------------------------------
(* getDesignSystem: platform resolution                                    *)

\* getDesignSystem returned a design system
DesignSystemCall == call.fn = "getDesignSystem" /\ ret.kind = "designSystem"

\* platformStr of the call, "" for undefined
PlatformParameter ==
  IF Truthy(call.args[5]) THEN toLowerCase(String(call.args[5])) ELSE ""

\* the layout getDesignSystem takes from the landing index when the landing
\* results are boosted for the given platform
LandingLayoutFor(platform) ==
  landingLayout(search(landingIndex,
                       landingSearchQuery(ret.validated[1].query,
                                          ret.fullResult._meta.detected_intent),
                       ret.validated[1].maxResults * 2),
                platform)

\* _meta reports the platform, and the landing layout is the one boosted for it
ResolvedAs(platform) ==
  /\ ret.fullResult._meta.resolved_platform = platform
  /\ ret.fullResult._meta.detected_platform = platform
  /\ ret.output._meta.resolved_platform = platform
  /\ (ret.fullResult.layout # null /\ ret.fullResult.layout.source = "landing") =>
       ret.fullResult.layout = LandingLayoutFor(platform)

----------------------------------------------------------------------------
(* getDesignSystem: hover_effects in the output                            *)

\* the output format of the call, ai-optimized when none is given
OutputFormat ==
  IF Truthy(call.args[6]) THEN toLowerCase(String(call.args[6])) ELSE "ai-optimized"

\* include_hover_effects of the call, with the documented default for an
\* omitted flag: false for ai-optimized, true for the other formats
IncludeHoverEffects ==
  IF call.args[7] # undefined THEN Truthy(call.args[7])
  ELSE OutputFormat # "ai-optimized"

\* C22: the output of getDesignSystem contains hover_effects exactly when
\* include_hover_effects is true, an omitted flag counting as false for the
\* ai-optimized format and as true for minimal, full and structured
HoverEffectsFollowFlag ==
  DesignSystemCall => ("hover_effects" \in DOMAIN ret.output <=> IncludeHoverEffects)

\* the minimal format with the flag omitted (true by default), or set to
\* true, and an output without hover_effects; or the full or structured
\* format with the flag set to false and an output with hover_effects
HoverEffectsFollowFlagWitness ==
  /\ DesignSystemCall
  /\ \/ /\ OutputFormat = "minimal"
        /\ call.args[7] \in {undefined, Bool(TRUE)}
        /\ "hover_effects" \notin DOMAIN ret.output
     \/ /\ OutputFormat \in {"full", "structured"}
        /\ call.args[7] = Bool(FALSE)
        /\ "hover_effects" \in DOMAIN ret.output

\* What does hold: the flag decides for the ai-optimized format only; the
\* minimal output never has hover_effects, the full and structured always
HoverEffectsByFormat ==
  DesignSystemCall =>
    ("hover_effects" \in DOMAIN ret.output <=>
       CASE OutputFormat = "ai-optimized" -> IncludeHoverEffects
         [] OutputFormat = "minimal" -> FALSE
         [] OTHER -> TRUE)

----------------------------------------------------------------------------
(* Platform boosting and truncation                                        *)

\* the landing records found for a query, boosted for a platform, when the
\* index is asked for that many results
BoostedLayouts(query, platform, depth) ==
  applyPlatformBoost(toSearchResults(search(landingIndex, query, depth)), platform, <<>>)

\* the records are, in this order, the first of the boosted candidates:
\* equal scores position by position, each record a candidate with that score
FirstOf(records, boosted) ==
  /\ Len(records) <= Len(boosted)
  /\ \A i \in 1..Len(records) :
       /\ records[i].score = boosted[i].score
       /\ \E j \in 1..Len(boosted) :
            boosted[j].data = records[i].data /\ boosted[j].score = records[i].score

\* searchPatterns returned results and boosted the layout results
BoostedPatternsCall ==
  /\ call.fn = "searchPatterns"
  /\ ret.kind = "results"
  /\ landingIndex # null
  /\ call.args[2] \in {undefined, Str("layout")}
  /\ detectPlatformIntent(ret.validated[1].originalQuery).confidence >= 500

\* resultsPerType of the searchPatterns call
ResultsPerType ==
  IF call.args[2] # undefined THEN ret.validated[1].maxResults
  ELSE Max(2, CeilDiv(ret.validated[1].maxResults, 3))

\* the layout records searchPatterns returned
ReturnedLayouts == SelectSeq(ret.results, LAMBDA r : r._domain = "layout")

\* the layout records of searchPatterns are the first of the candidates the
\* landing index gives at the depth, boosted; all of the first resultsPerType
\* when only layouts are searched
PatternLayoutsFrom(depth) ==
  BoostedPatternsCall =>
    LET boosted == BoostedLayouts(ret.validated[1].query,
                                  detectPlatformIntent(ret.validated[1].originalQuery).platform,
                                  depth)
    IN  /\ FirstOf(ReturnedLayouts, slice0(boosted, ResultsPerType))
        /\ call.args[2] = Str("layout") =>
             Len(ReturnedLayouts) = Len(slice0(boosted, ret.validated[1].maxResults))

\* getDesignSystem took its layout from the landing index
LandingLayoutCall ==
  /\ DesignSystemCall
  /\ landingIndex # null
  /\ ret.fullResult.layout # null => ret.fullResult.layout.source = "landing"
  /\ ret.fullResult._meta.detected_intent = "dashboard" =>
       (productsIndex = null
          \/ search(productsIndex, ret.validated[1].query \o " dashboard",
                    ret.validated[1].maxResults) = <<>>)

\* the landing layout of getDesignSystem is a candidate with the highest
\* boosted score among those the landing index gives at the depth
LandingLayoutFrom(depth) ==
  LandingLayoutCall =>
    LET boosted == BoostedLayouts(landingSearchQuery(ret.validated[1].query,
                                                     ret.fullResult._meta.detected_intent),
                                  ret.fullResult._meta.resolved_platform, depth)
    IN  IF boosted = <<>> THEN ret.fullResult.layout = null
        ELSE /\ ret.fullResult.layout # null
             /\ \E j \in 1..Len(boosted) :
                  /\ boosted[j].score = boosted[1].score
                  /\ Field(boosted[j].data, "Pattern Name") = ret.fullResult.layout.pattern

\* every document of the landing index
AllLayouts == IF landingIndex = null THEN 0 ELSE Len(landingIndex.documents)

\* C28 as stated: the platform boost is applied after the BM25 search and
\* before truncation: the layout records searchPatterns and getDesignSystem
\* return are those with the highest boosted score among all positive-scoring
\* layout candidates for the query
BoostBeforeTruncationAsStated ==
  /\ PatternLayoutsFrom(AllLayouts)
  /\ LandingLayoutFrom(AllLayouts)

\* C28: the platform boost is applied after a BM25 search for twice the
\* number of layout records wanted and before the truncation to that number:
\* the layout records searchPatterns and getDesignSystem return are those
\* with the highest boosted score among the 2 * resultsPerType (searchPatterns)
\* or 2 * maxResults (getDesignSystem) best BM25 candidates for the query
BoostBeforeTruncation ==
  /\ PatternLayoutsFrom(2 * ResultsPerType)
  /\ LandingLayoutFrom(2 * ret.validated[1].maxResults)

\* "android wizard" with one layout wanted: the landing index has three candidates,
\* the two best by BM25 are boosted for mobile-android and the better of them is
\* the layout, while the third, a mobile pattern, has the highest boosted score
\* of the three
BoostBeforeTruncationWitness ==
  /\ LandingLayoutCall
  /\ call.args[1] = Str("android wizard")
  /\ ret.validated[1].maxResults = 1
  /\ ret.fullResult._meta.resolved_platform = "mobile-android"
  /\ Len(BoostedLayouts(ret.validated[1].query, "mobile-android", AllLayouts)) = 3
  /\ ret.fullResult.layout # null
  /\ ret.fullResult.layout.pattern =
       BoostedLayouts(ret.validated[1].query, "mobile-android", 2)[1].data["Pattern Name"]
  /\ ret.fullResult.layout.pattern #
       BoostedLayouts(ret.validated[1].query, "mobile-android", AllLayouts)[1].data["Pattern Name"]

====
